---- MODULE Spec2Model ----
(***************************************************************************)
(* PesaLog: the SMS ingestion pipeline (SmsListenerService), the reference *)
(* linker (ReferenceLinkingService) and the debt ledger (DebtService).     *)
(*                                                                         *)
(* Every `await` on the database is one step of the process running the    *)
(* call: the step performs the awaited statement and the synchronous code  *)
(* that follows it up to the next `await`.  A SELECT without ORDER BY that *)
(* the code destructures with `const [row] = ...` picks any matching row.  *)
(* Columns that only record wall-clock times (createdAt, updatedAt,        *)
(* parsedAt, paymentDate, createdDate, transactionDate) are not part of    *)
(* the state; the one wall-clock value that decides behaviour, the         *)
(* reference code generated for a card message, is read from `now`.        *)
(***************************************************************************)
EXTENDS Integers, Sequences, FiniteSets, TLC

(***************************************************************************)
(* Bounds of the model.                                                    *)
(***************************************************************************)
MaxRaw == 3          \* RawMessage rows the pipeline may persist
MaxRaceRaw == 2      \* the same, when the two channels run concurrently
MaxNow == 1          \* last value of the wall clock
MaxUiOps == 1        \* manual debt operations (screens of the app)
MaxLedgerOps == 2    \* the same, when the debt ledger is studied on its own
MaxFaults == 1       \* persistence failures injected
MaxBatch == 3         \* messages handed to one historical import
MaxAmount == 2       \* largest amount entered by hand, in cents
MaxMatches == 3      \* patterns of the table that one body may match
MaxIntChars == 5     \* characters of an amount capture before the decimal point
MaxFracDigits == 3   \* digits of an amount capture after the decimal point
MaxResets == 1       \* bulk resets of the data-management screen
MaxSetting == 2      \* largest value given to a settings key
MaxSubscriptions == 3 \* subscriptions the push listener may make
MaxSenderParts == 2  \* fragments a sender address is joined from
MaxBodyParts == 2    \* fragments a body is joined from

(***************************************************************************)
(* The messages a device may deliver.  A message id stands for one         *)
(* (sender, body, timestamp) tuple; the record says what the filter, the   *)
(* dialect matcher and the reference-code scanner find in it.              *)
(***************************************************************************)
Blank ==
  [ knownSender |-> TRUE, keywords |-> TRUE, failedKw |-> FALSE, ts |-> 0,
    dialect |-> "none", ref |-> "", codes |-> << >>,
    amount |-> 0, fee |-> 0, principal |-> 0, totalOutstanding |-> 0,
    dueDate |-> 0, name |-> "", account |-> "", phone |-> "",
    date |-> <<3, 1, 2026>> ]

MsgIds ==
  {"D1", "D2", "R1", "R2", "A1", "P1", "B1", "B0", "B2", "M1", "S1", "K1", "U1", "X1",
   "N1"}

\* the messages that reach both channels in the concurrent specification
RaceMsgIds == {"D1", "R1", "P1", "B1", "U1"}

Msg(m) ==
  CASE m = "D1" -> [Blank EXCEPT !.dialect = "fuliza", !.ref = "FZ1", !.codes = <<"FZ1">>,
                      !.ts = 1, !.principal = 2, !.amount = 2, !.fee = 1,
                      !.totalOutstanding = 3, !.dueDate = 0]
    [] m = "D2" -> [Blank EXCEPT !.dialect = "fuliza", !.ref = "FZ2", !.codes = <<"FZ2">>,
                      !.ts = 3, !.principal = 1, !.amount = 1, !.fee = 2,
                      !.totalOutstanding = 2, !.dueDate = 1]
    [] m = "R1" -> [Blank EXCEPT !.dialect = "fuliza_repayment", !.ref = "RP1",
                      !.codes = <<"RP1">>, !.ts = 2, !.amount = 2]
    [] m = "R2" -> [Blank EXCEPT !.dialect = "fuliza_repayment", !.ref = "RP2",
                      !.codes = <<"RP2">>, !.ts = 4, !.amount = 5]
    [] m = "A1" -> [Blank EXCEPT !.dialect = "fuliza_auto_repayment", !.ref = "AR1",
                      !.codes = <<"AR1">>, !.ts = 2, !.amount = 1]
    [] m = "P1" -> [Blank EXCEPT !.dialect = "mpesa_paybill", !.ref = "PB1",
                      !.codes = <<"PB1">>, !.ts = 1, !.amount = 7, !.fee = 1,
                      !.name = "KCB", !.account = "5249"]
    [] m = "B1" -> [Blank EXCEPT !.dialect = "bank_confirmation", !.ref = "PB1",
                      !.codes = <<"PB1">>, !.ts = 2, !.amount = 7,
                      !.name = "KCB PAYBILL LTD", !.account = "5249",
                      !.date = <<4, 1, 2026>>]
    [] m = "B0" -> [Blank EXCEPT !.dialect = "bank_confirmation", !.ref = "PB1",
                      !.codes = <<"PB1">>, !.ts = 0, !.amount = 7,
                      !.name = "KCB BANK", !.account = "5249",
                      !.date = <<2, 1, 2026>>]
    [] m = "B2" -> [Blank EXCEPT !.dialect = "bank_confirmation", !.ref = "PB1",
                      !.codes = <<"SAFARICOM", "PB1">>, !.ts = 2, !.amount = 7,
                      !.name = "SAFARICOM", !.account = "5249"]
    [] m = "M1" -> [Blank EXCEPT !.dialect = "mpesa_paybill", !.ref = "PB7",
                      !.codes = <<"PB7">>, !.ts = 1, !.amount = 3, !.fee = 1,
                      !.name = "KPLC", !.account = "77", !.date = <<31, 2, 2026>>]
    [] m = "S1" -> [Blank EXCEPT !.dialect = "mpesa_send", !.ref = "SD1",
                      !.codes = <<"SD1">>, !.ts = 1, !.amount = 5, !.fee = 1,
                      !.name = "EDWARD KAMAU", !.phone = "0718824980"]
    [] m = "K1" -> [Blank EXCEPT !.dialect = "card_transaction", !.ts = 1, !.amount = 4,
                      !.name = "FORGE"]
    [] m = "U1" -> [Blank EXCEPT !.ts = 1]
    [] m = "X1" -> [Blank EXCEPT !.dialect = "mpesa_paybill", !.ref = "PB9",
                      !.codes = <<"PB9">>, !.failedKw = TRUE, !.ts = 1, !.amount = 3,
                      !.name = "KCB", !.account = "5249"]
    [] m = "N1" -> [Blank EXCEPT !.knownSender = FALSE, !.keywords = FALSE, !.ts = 1]


(***************************************************************************)
(* Message Filter (SmsFilterService).                                      *)
(***************************************************************************)
isFinancialSms(m) == Msg(m).knownSender

hasFinancialKeywords(m) == Msg(m).keywords

shouldProcess(m) == isFinancialSms(m) \/ hasFinancialKeywords(m)

\* a filter that knows no negative-outcome keyword
NeverFailed(m) == FALSE

isFailedTransaction(m) == Msg(m).failedKw

(***************************************************************************)
(* Dialect Matcher (SmsParserService) and the PATTERNS table.              *)
(***************************************************************************)
TransactionTypeOf(patternType) ==
  CASE patternType = "fuliza" -> "debt"
    [] patternType \in {"fuliza_auto_repayment", "fuliza_repayment"} -> "debt_repayment"
    [] patternType = "mshwari_transfer" -> "transfer"
    [] patternType \in {"mpesa_received", "bank_transfer"} -> "income"
    [] OTHER -> "expense"

\* the days of a month, as the Date constructor counts them
DaysInMonth(month, year) ==
  CASE month \in {4, 6, 9, 11} -> 30
    [] month = 2 -> IF year % 4 = 0 /\ (year % 100 # 0 \/ year % 400 = 0) THEN 29 ELSE 28
    [] OTHER -> 31

\* new Date(year, month - 1, day): a day or month past the end rolls over
RECURSIVE NewDate(_, _, _)
NewDate(year, month, day) ==
  IF month > 12 THEN NewDate(year + 1, month - 12, day)
  ELSE IF day > DaysInMonth(month, year)
       THEN NewDate(year, month + 1, day - DaysInMonth(month, year))
       ELSE [day |-> day, month |-> month, year |-> year]

\* parseSmsDate: the three numbers of the date capture, day first unless only the
\* second can be a day; a two-digit year is resolved around 1950
parseSmsDate(parts) ==
  IF parts[3] >= 100
  THEN IF parts[1] <= 12 /\ parts[2] > 12
       THEN NewDate(parts[3], parts[1], parts[2])
       ELSE NewDate(parts[3], parts[2], parts[1])
  ELSE NewDate(IF parts[3] < 50 THEN 2000 + parts[3] ELSE 1900 + parts[3],
               parts[2], parts[1])

\* new Date(): the instant of the call, which is no message's date
Today == [day |-> 0, month |-> 0, year |-> 0]

\* parseCardTransaction: the reference code is generated from the wall clock
CardRefCode(t) == "CARD-" \o ToString(t)

\* extractData: the parsed record of a message whose body matches `dialect`
extractData(m, t) ==
  LET b == Msg(m) IN
  [ type |-> IF b.dialect = "mpesa_paybill_alt" THEN "mpesa_paybill" ELSE b.dialect,
    refCode |-> IF b.dialect = "card_transaction" THEN CardRefCode(t) ELSE b.ref,
    amount |-> b.amount, fee |-> b.fee, principal |-> b.principal,
    totalOutstanding |-> b.totalOutstanding, dueDate |-> b.dueDate,
    amountRepaid |-> b.amount, name |-> b.name, account |-> b.account,
    phone |-> IF b.dialect \in {"mpesa_send", "mpesa_received"} THEN b.phone ELSE "",
    transactionDate |-> IF b.dialect \in {"fuliza", "fuliza_repayment",
                                          "fuliza_auto_repayment"}
                        THEN Today ELSE parseSmsDate(b.date) ]

parseMessage(m, t) ==
  IF Msg(m).dialect = "none"
  THEN [success |-> FALSE, patternType |-> "unknown", transactionType |-> "",
        error |-> "No matching pattern found", data |-> extractData(m, t)]
  ELSE [success |-> TRUE, patternType |-> Msg(m).dialect,
        transactionType |-> TransactionTypeOf(Msg(m).dialect),
        error |-> "", data |-> extractData(m, t)]

\* a check that takes no counterparty for a person
NeverPerson(parsed) == FALSE

isPerson(parsed) ==
  /\ parsed.type \in {"mpesa_send", "mpesa_received"}
  /\ parsed.phone # ""

getCounterparty(parsed) ==
  CASE parsed.type = "mpesa_airtime" -> "Airtime"
    [] parsed.type \in {"fuliza", "fuliza_repayment", "fuliza_auto_repayment"} -> "Fuliza M-Pesa"
    [] parsed.type = "mshwari_transfer" -> "M-Shwari"
    [] OTHER -> parsed.name

getSource(parsed) ==
  CASE parsed.type \in {"bank_transfer", "bank_confirmation"} -> "bank"
    [] parsed.type = "card_transaction" -> "card"
    [] OTHER -> "mpesa"

getFee(parsed) ==
  IF parsed.type \in {"mpesa_send", "mpesa_paybill", "fuliza"} THEN parsed.fee ELSE 0

getAccount(parsed) ==
  IF parsed.type \in {"mpesa_paybill", "bank_confirmation"} THEN parsed.account ELSE ""

\* extractRefCodes: the reference-code shaped tokens of the body, first found first
extractRefCodes(m) == Msg(m).codes

(***************************************************************************)
(* State.                                                                  *)
(***************************************************************************)
VARIABLES
  rawSms,           \* table raw_sms: sequence of rows, id = index
  transactions,     \* table transactions
  debts,            \* table debts
  debtPayments,     \* table debt_payments
  relatedMessages,  \* table related_messages
  now,              \* wall clock, as last read
  proc,             \* per channel: the processIncomingSms call it is running
  ui,               \* the last manual debt operation and the ledger before it
  uiOps,            \* manual debt operations done
  faults,           \* persistence failures injected
  facility,         \* history: what the last draw reported, what was repaid since
  importer,         \* the importHistoricalSms call: its loop and its counters
  call,             \* a call of a pure function: its arguments, its position, its result
  settings,         \* SettingsService: the user_settings row of the poll watermark,
                    \* the cache entry of its key, and the get and set calls running
  polls,            \* per caller of checkForNewSms: the check it is running
  inbox,            \* the messages in the inbox of the device
  listener          \* SmsBroadcastService: its flag, its subscriptions, its calls

\* what lies around the pipeline: the settings, the poller, the device, the listener
services == << settings, polls, inbox, listener >>

vars == << rawSms, transactions, debts, debtPayments, relatedMessages, now, proc,
           ui, uiOps, faults, facility, importer, call, services >>

\* the two arrival channels: the push listener and the poller
Channels == {"push", "poll"}

\* the callers of processIncomingSms: the channels and the historical import
Procs == Channels \cup {"import"}

NoResult ==
  [ success |-> FALSE, rawSmsId |-> 0, transactionId |-> 0, isDuplicate |-> FALSE,
    needsClassification |-> FALSE, isPerson |-> FALSE, error |-> "", thrown |-> FALSE ]

NoExisting == [id |-> 0, source |-> "", counterpartyAccount |-> ""]

NoMerged == [isNull |-> TRUE, refCode |-> "", amount |-> 0, counterparty |-> "",
             account |-> "", fee |-> 0, transactionDate |-> Today]

NoDebt == [id |-> 0, feesCharged |-> 0, totalOutstanding |-> 0]

NoPre ==
  [ debts |-> << >>, nTx |-> 0, nPay |-> 0, rawSms |-> << >>, transactions |-> << >>,
    debtPayments |-> << >>, relatedMessages |-> << >> ]

IdleProc ==
  [ pc |-> "idle", msg |-> "", t |-> 0, rawId |-> 0, existing |-> NoExisting,
    related |-> << >>, li |-> 0, merged |-> NoMerged, debt |-> NoDebt,
    txId |-> 0, txStatus |-> "", result |-> NoResult, pre |-> NoPre,
    faulted |-> FALSE, repeat |-> FALSE ]

\* pre, preNow and repeat are history: the ledger and the clock before the
\* operation, and whether the operation before it was the same one
NoUi == [op |-> "none", debtId |-> 0, amount |-> 0, pre |-> << >>, preNow |-> 0,
        repeat |-> FALSE]

NoCounts == [total |-> 0, processed |-> 0, failed |-> 0, duplicates |-> 0]

\* input and taken are history: the batch as it was handed over, and the messages
\* the loop has passed to processIncomingSms so far
NoImport == [pc |-> "idle", queue |-> << >>, results |-> NoCounts,
             cancelRequested |-> FALSE, input |-> << >>, taken |-> << >>]

NoCall == [fn |-> "none"]

\* the callers of checkForNewSms: the interval timer of startPolling, and the
\* foreground check of the polling hook or the background task
PollChecks == {"timer", "foreground"}

\* null, the value of a settings key without a value
Null == 0 - 1

NoSettingsCall == [op |-> "none", pc |-> "idle", value |-> Null, existing |-> FALSE]

\* lastSet is history: the value of the latest set call that returned
NoSettings ==
  [ db |-> [exists |-> FALSE, value |-> Null],
    cache |-> [has |-> FALSE, value |-> Null],
    calls |-> [k \in PollChecks |-> NoSettingsCall],
    lastSet |-> Null ]

\* failed is history: the messages whose latest processIncomingSms call of a
\* check ended with a persistence error
IdleCheck ==
  [ pc |-> "idle", lastTimestamp |-> 0, queue |-> {}, maxTimestamp |-> 0,
    failed |-> {} ]

\* the two callers of startListening
ListenerCalls == {1, 2}

\* active: the subscriptions registered on the event emitter; created: the
\* subscriptions made so far; handled is history: the handler runs the latest
\* event caused
NoListener ==
  [ isListening |-> FALSE, subscription |-> 0, active |-> {}, created |-> 0,
    calls |-> [k \in ListenerCalls |-> "idle"], handled |-> 0 ]

\* the store and the services as they are when the application starts
EmptyStore ==
  /\ rawSms = << >>
  /\ transactions = << >>
  /\ debts = << >>
  /\ debtPayments = << >>
  /\ relatedMessages = << >>
  /\ now = 0
  /\ proc = [p \in Procs |-> IdleProc]
  /\ ui = NoUi
  /\ uiOps = 0
  /\ faults = 0
  /\ facility = [reported |-> 0, repaid |-> 0]
  /\ importer = NoImport
  /\ settings = NoSettings
  /\ polls = [c \in PollChecks |-> IdleCheck]
  /\ inbox = {}
  /\ listener = NoListener

Init ==
  /\ EmptyStore
  /\ call = NoCall


(***************************************************************************)
(* Helpers on tables.                                                      *)
(***************************************************************************)
Ids(table) == 1..Len(table)

Min2(a, b) == IF a <= b THEN a ELSE b

Max2(a, b) == IF a >= b THEN a ELSE b

\* a finished call's record is kept until the next operation begins
Settled(p) == proc[p].pc \in {"idle", "done"}

Forget(pr) == [q \in Procs |-> IF pr[q].pc = "done" THEN IdleProc ELSE pr[q]]

P(p) == parseMessage(proc[p].msg, proc[p].t)

(***************************************************************************)
(* Reference Linker (ReferenceLinkingService).                             *)
(***************************************************************************)
ReceivedAt(id) == Msg(rawSms[id].msg).ts

RECURSIVE SortByReceivedAt(_)
SortByReceivedAt(ids) ==
  IF ids = << >> THEN << >>
  ELSE LET x == ids[Len(ids)]
           rest == SortByReceivedAt(SubSeq(ids, 1, Len(ids) - 1))
           k == Cardinality({i \in 1..Len(rest) : ReceivedAt(rest[i]) <= ReceivedAt(x)})
       IN SubSeq(rest, 1, k) \o <<x>> \o SubSeq(rest, k + 1, Len(rest))

\* one iteration of the loop of mergeRelatedMessages, r being the parse result of
\* the message
MergeParsed(merged, r, d) ==
  LET m1 == IF r.success /\ d.type \in {"mpesa_send", "mpesa_paybill", "mpesa_received"}
            THEN [merged EXCEPT !.refCode = d.refCode, !.amount = d.amount,
                                !.transactionDate = d.transactionDate,
                                !.counterparty = d.name,
                                !.account = IF d.type = "mpesa_paybill" THEN d.account ELSE @,
                                !.fee = IF d.type = "mpesa_received" THEN @ ELSE d.fee]
            ELSE merged
      m2 == IF r.success /\ d.type = "bank_confirmation"
            THEN [m1 EXCEPT !.counterparty =
                              IF d.name # "" /\ Len(d.name) > Len(m1.counterparty)
                              THEN d.name ELSE @,
                            !.account = IF d.account # "" THEN d.account ELSE @]
            ELSE m1
      m3 == IF r.success /\ d.type = "bank_transfer"
            THEN [m2 EXCEPT !.refCode = IF d.refCode # "" THEN d.refCode ELSE @,
                            !.amount = IF @ # 0 THEN @ ELSE d.amount,
                            !.counterparty = IF @ # "" THEN @ ELSE d.name]
            ELSE m2
  IN m3

\* the message of raw row id is parsed again and merged
MergeOne(merged, id) ==
  MergeParsed(merged, parseMessage(rawSms[id].msg, 0),
              parseMessage(rawSms[id].msg, 0).data)

RECURSIVE MergeFold(_, _)
MergeFold(merged, ids) ==
  IF ids = << >> THEN merged
  ELSE MergeFold(MergeOne(merged, ids[1]), SubSeq(ids, 2, Len(ids)))

mergeRelatedMessages(ids) ==
  MergeFold([NoMerged EXCEPT !.isNull = FALSE], SortByReceivedAt(ids))

\* findRelatedMessages: the other raw rows tagged with the code, in id order
RECURSIVE findRelatedMessages(_, _, _)
findRelatedMessages(refCode, excludeId, upTo) ==
  IF upTo = 0 THEN << >>
  ELSE LET before == findRelatedMessages(refCode, excludeId, upTo - 1)
       IN IF rawSms[upTo].linkedRefCode = refCode /\ upTo # excludeId
          THEN Append(before, upTo) ELSE before

(***************************************************************************)
(* Ingestion Pipeline: processIncomingSms, one step per awaited statement. *)
(***************************************************************************)
\* a router that never takes the duplicate path
RouteIgnoringExisting(r, existing) ==
  IF r.patternType = "fuliza" THEN "fulizaSelect"
  ELSE IF r.patternType = "fuliza_repayment" THEN "repaySelect"
  ELSE "createTx"

\* where the call continues once processAndLink has returned
AfterLinkPc(r, existing) ==
  IF existing.id # 0
  THEN IF /\ r.patternType = "bank_confirmation"
          /\ existing.source = "mpesa"
          /\ r.data.type = "bank_confirmation"
          /\ r.data.name # ""
       THEN "dupEnrich" ELSE "dupMarkParsed"
  ELSE IF r.patternType = "fuliza" THEN "fulizaSelect"
  ELSE IF r.patternType = "fuliza_repayment" THEN "repaySelect"
  ELSE "createTx"

\* the record of a call that has returned `res`
Returned(pr, res) ==
  [IdleProc EXCEPT !.pc = "done", !.msg = pr.msg, !.t = pr.t, !.rawId = pr.rawId,
                   !.txId = pr.txId, !.debt = pr.debt, !.result = res, !.pre = pr.pre,
                   !.faulted = pr.faulted, !.repeat = pr.repeat]

\* m was also the message of the latest call: no other message was persisted and
\* no manual operation ran in between
InSuccession(m) ==
  /\ rawSms # << >>
  /\ rawSms[Len(rawSms)].msg = m
  /\ ui.op = "none"

\* steps 1 and 2 of processIncomingSms: the filter gate
StartCall(p, m, maxRaw) ==
  /\ Settled(p)
  /\ Len(rawSms) < maxRaw
  /\ LET begun == [IdleProc EXCEPT !.msg = m,
                     !.pre = [debts |-> debts, nTx |-> Len(transactions),
                              nPay |-> Len(debtPayments), rawSms |-> rawSms,
                              transactions |-> transactions,
                              debtPayments |-> debtPayments,
                              relatedMessages |-> relatedMessages],
                     !.repeat = InSuccession(m)]
         others == Forget(proc)
     IN proc' = [others EXCEPT ![p] =
                   IF ~shouldProcess(m)
                   THEN Returned(begun, [NoResult EXCEPT !.error = "Not a financial SMS"])
                   ELSE IF isFailedTransaction(m)
                   THEN Returned(begun, [NoResult EXCEPT !.error = "Failed transaction - skipped"])
                   ELSE [begun EXCEPT !.pc = "insertRaw"]]
  /\ ui' = NoUi
  /\ UNCHANGED << rawSms, transactions, debts, debtPayments, relatedMessages, now,
                  uiOps, faults, facility, call, services >>

\* insert the raw row as pending, then parse the body
InsertRaw(p) ==
  /\ proc[p].pc = "insertRaw"
  /\ rawSms' = Append(rawSms, [msg |-> proc[p].msg, parseStatus |-> "pending",
                               parseError |-> "", linkedRefCode |-> ""])
  /\ \E t \in now..MaxNow :
       /\ IF Msg(proc[p].msg).dialect = "card_transaction"
          THEN now' = t ELSE (t = now /\ now' = now)
       /\ LET r == parseMessage(proc[p].msg, t)
          IN proc' = [proc EXCEPT ![p].rawId = Len(rawSms) + 1,
                                  ![p].t = IF Msg(proc[p].msg).dialect = "card_transaction"
                                           THEN t ELSE 0,
                                  ![p].pc = IF r.success THEN "findExisting"
                                            ELSE "markFailed"]
  /\ UNCHANGED << transactions, debts, debtPayments, relatedMessages, ui,
                  uiOps, faults, facility, importer, call, services >>

\* a failure recorded without its reason
NoReason(r) == ""

\* the reason stored with a failed raw row
ParseErrorOf(r) == IF r.error # "" THEN r.error ELSE "Unknown parse error"

\* no dialect matched: the raw row becomes failed
MarkFailed(p) ==
  /\ proc[p].pc = "markFailed"
  /\ rawSms' = [rawSms EXCEPT ![proc[p].rawId].parseStatus = "failed",
                              ![proc[p].rawId].parseError = ParseErrorOf(P(p))]
  /\ proc' = [proc EXCEPT ![p] =
                Returned(proc[p], [NoResult EXCEPT !.rawSmsId = proc[p].rawId,
                                                   !.error = P(p).error])]
  /\ UNCHANGED << transactions, debts, debtPayments, relatedMessages, now, ui, uiOps,
                  faults, facility, importer, call, services >>

\* findExistingTransaction, then the synchronous head of processAndLink
FindExisting(p) ==
  /\ proc[p].pc = "findExisting"
  /\ LET found == {i \in Ids(transactions) :
                     transactions[i].primaryRefCode = P(p).data.refCode}
     IN \E i \in (IF found = {} THEN {0} ELSE found) :
          LET existing == IF i = 0 THEN NoExisting
                          ELSE [id |-> i, source |-> transactions[i].source,
                                counterpartyAccount |-> transactions[i].counterpartyAccount]
          IN proc' = [proc EXCEPT ![p].existing = existing,
                                  ![p].pc = IF extractRefCodes(proc[p].msg) = << >>
                                            THEN AfterLinkPc(P(p), existing)
                                            ELSE "linkSetRef"]
  /\ UNCHANGED << rawSms, transactions, debts, debtPayments, relatedMessages, now,
                  ui, uiOps, faults, facility, importer, call, services >>


\* processAndLink: tag the raw row with the first code found in the body
LinkSetRef(p) ==
  /\ proc[p].pc = "linkSetRef"
  /\ rawSms' = [rawSms EXCEPT ![proc[p].rawId].linkedRefCode =
                                extractRefCodes(proc[p].msg)[1]]
  /\ proc' = [proc EXCEPT ![p].pc = "linkFind"]
  /\ UNCHANGED << transactions, debts, debtPayments, relatedMessages, now, ui, uiOps,
                  faults, facility, importer, call, services >>

\* processAndLink: the other raw rows carrying the code
LinkFind(p) ==
  /\ proc[p].pc = "linkFind"
  /\ LET related == findRelatedMessages(extractRefCodes(proc[p].msg)[1],
                                        proc[p].rawId, Len(rawSms))
     IN proc' = [proc EXCEPT ![p].related = related,
                             ![p].li = IF related = << >> THEN 0 ELSE 1,
                             ![p].pc = IF related = << >>
                                       THEN AfterLinkPc(P(p), proc[p].existing)
                                       ELSE "linkCheck"]
  /\ UNCHANGED << rawSms, transactions, debts, debtPayments, relatedMessages, now,
                  ui, uiOps, faults, facility, importer, call, services >>

\* the pair of raw ids a link row stores: smaller id first
LinkRow(p) ==
  LET other == proc[p].related[proc[p].li]
  IN [primarySmsId |-> Min2(proc[p].rawId, other),
      secondarySmsId |-> Max2(proc[p].rawId, other),
      refCode |-> extractRefCodes(proc[p].msg)[1]]

\* the loop of processAndLink moves to the next related row, or to the merge
NextRelated(pr) ==
  IF pr.li < Len(pr.related)
  THEN [pr EXCEPT !.li = pr.li + 1, !.pc = "linkCheck"]
  ELSE [pr EXCEPT !.li = 0, !.pc = "linkMerge"]

\* processAndLink: does the link already exist?
LinkCheck(p) ==
  /\ proc[p].pc = "linkCheck"
  /\ LET existingLink == {i \in Ids(relatedMessages) : relatedMessages[i] = LinkRow(p)}
     IN proc' = [proc EXCEPT ![p] = IF existingLink = {}
                                    THEN [proc[p] EXCEPT !.pc = "linkInsert"]
                                    ELSE NextRelated(proc[p])]
  /\ UNCHANGED << rawSms, transactions, debts, debtPayments, relatedMessages, now,
                  ui, uiOps, faults, facility, importer, call, services >>

\* processAndLink: insert the link row
LinkInsert(p) ==
  /\ proc[p].pc = "linkInsert"
  /\ relatedMessages' = Append(relatedMessages, LinkRow(p))
  /\ proc' = [proc EXCEPT ![p] = NextRelated(proc[p])]
  /\ UNCHANGED << rawSms, transactions, debts, debtPayments, now, ui, uiOps,
                  faults, facility, importer, call, services >>

\* processAndLink: read the current raw row and merge it with the related ones
LinkMerge(p) ==
  /\ proc[p].pc = "linkMerge"
  /\ proc' = [proc EXCEPT ![p].merged =
                            mergeRelatedMessages(<<proc[p].rawId>> \o proc[p].related),
                          ![p].pc = AfterLinkPc(P(p), proc[p].existing)]
  /\ UNCHANGED << rawSms, transactions, debts, debtPayments, relatedMessages, now,
                  ui, uiOps, faults, facility, importer, call, services >>

\* duplicate path: a bank confirmation gives the mobile-money transaction its name
DupEnrich(p) ==
  /\ proc[p].pc = "dupEnrich"
  /\ LET d == P(p).data
         e == proc[p].existing
     IN transactions' = [transactions EXCEPT
                           ![e.id].counterparty = d.name,
                           ![e.id].counterpartyAccount =
                              IF d.account # "" THEN d.account ELSE e.counterpartyAccount]
  /\ proc' = [proc EXCEPT ![p].pc = "dupMarkParsed"]
  /\ UNCHANGED << rawSms, debts, debtPayments, relatedMessages, now, ui,
                  uiOps, faults, facility, importer, call, services >>

\* duplicate path: the raw row becomes parsed and the call reports a duplicate
DupMarkParsed(p) ==
  /\ proc[p].pc = "dupMarkParsed"
  /\ rawSms' = [rawSms EXCEPT ![proc[p].rawId].parseStatus = "parsed",
                              ![proc[p].rawId].linkedRefCode = P(p).data.refCode]
  /\ proc' = [proc EXCEPT ![p] =
                Returned(proc[p], [NoResult EXCEPT !.success = TRUE,
                                                   !.rawSmsId = proc[p].rawId,
                                                   !.isDuplicate = TRUE])]
  /\ UNCHANGED << transactions, debts, debtPayments, relatedMessages, now, ui, uiOps,
                  faults, facility, importer, call, services >>

\* createTransaction: the regular ledger entry
NewTransaction(r, rawSmsId, merged) ==
  [ primaryRefCode |-> r.data.refCode,
    type |-> r.transactionType,
    source |-> getSource(r.data),
    amount |-> r.data.amount,
    fee |-> getFee(r.data),
    counterparty |-> IF ~merged.isNull /\ merged.counterparty # ""
                     THEN merged.counterparty ELSE getCounterparty(r.data),
    counterpartyAccount |-> IF ~merged.isNull /\ merged.account # ""
                            THEN merged.account ELSE getAccount(r.data),
    transactionDate |-> r.data.transactionDate,
    rawSmsId |-> rawSmsId,
    status |-> "pending_classification",
    isAutoClassified |-> FALSE ]

CreateTx(p) ==
  /\ proc[p].pc = "createTx"
  /\ transactions' = Append(transactions,
                            NewTransaction(P(p), proc[p].rawId, proc[p].merged))
  /\ proc' = [proc EXCEPT ![p].txId = Len(transactions) + 1,
                          ![p].txStatus = "pending_classification",
                          ![p].pc = "markParsed"]
  /\ UNCHANGED << rawSms, debts, debtPayments, relatedMessages, now, ui,
                  uiOps, faults, facility, importer, call, services >>

\* the last step of the three non-duplicate branches: the raw row becomes parsed
MarkParsed(p) ==
  /\ proc[p].pc = "markParsed"
  /\ rawSms' = [rawSms EXCEPT ![proc[p].rawId].parseStatus = "parsed",
                              ![proc[p].rawId].linkedRefCode = P(p).data.refCode]
  /\ proc' = [proc EXCEPT ![p] =
                Returned(proc[p],
                  IF P(p).patternType \in {"fuliza", "fuliza_repayment"}
                  THEN [NoResult EXCEPT !.success = TRUE, !.rawSmsId = proc[p].rawId,
                                        !.needsClassification = FALSE]
                  ELSE [NoResult EXCEPT !.success = TRUE, !.rawSmsId = proc[p].rawId,
                                        !.transactionId = proc[p].txId,
                                        !.needsClassification =
                                           (proc[p].txStatus = "pending_classification"),
                                        !.isPerson = isPerson(P(p).data)])]
  /\ UNCHANGED << transactions, debts, debtPayments, relatedMessages, now, ui, uiOps,
                  faults, facility, importer, call, services >>


(***************************************************************************)
(* Debt Ledger (DebtService).                                              *)
(***************************************************************************)
NoDueDate == 0 - 1

\* processFulizaMessage: the statuses its lookup of the running facility accepts
DrawLookupStatuses == {"active"}

\* a lookup that also accepts a facility already paid
PaidFacilityToo == {"active", "partially_paid", "paid"}

\* processFulizaRepayment: the statuses its lookup accepts
RepaymentLookupStatuses == {"active", "partially_paid"}

FulizaRows(statuses) ==
  {i \in Ids(debts) : debts[i].type = "fuliza" /\ debts[i].status \in statuses}

\* `const [row] = await db.select()...`: any matching row, or none
FirstOf(rows) == IF rows = {} THEN {0} ELSE rows

Snapshot(i) ==
  IF i = 0 THEN NoDebt
  ELSE [id |-> i, feesCharged |-> debts[i].feesCharged,
        totalOutstanding |-> debts[i].totalOutstanding]

\* a repayment that forgets the clamp at zero
UnclampedOutstanding(previous, amountRepaid) == previous - amountRepaid

\* processFulizaRepayment: the balance after a repayment
RepaymentOutstanding(previous, amountRepaid) == Max2(0, previous - amountRepaid)

\* a repayment that marks the debt paid only below zero
StatusPaidBelowZero(newOutstanding) ==
  IF newOutstanding < 0 THEN "paid" ELSE "partially_paid"

\* processFulizaRepayment: the status after a repayment
RepaymentStatus(newOutstanding) ==
  IF newOutstanding <= 0 THEN "paid" ELSE "partially_paid"

\* recordPayment: the balance and the status after a manual payment
PaymentOutstanding(previous, amount) == Max2(0, previous - amount)

PaymentStatus(newOutstanding) ==
  IF newOutstanding <= 0 THEN "paid" ELSE "partially_paid"

\* the transaction row both debt operations insert
DebtTransaction(refCode, type, amount, fee, rawSmsId) ==
  [ primaryRefCode |-> refCode, type |-> type, source |-> "mpesa", amount |-> amount,
    fee |-> fee, counterparty |-> "Fuliza M-Pesa", counterpartyAccount |-> "",
    transactionDate |-> Today, rawSmsId |-> rawSmsId, status |-> "classified", isAutoClassified |-> TRUE ]

\* processFulizaMessage: look for the running facility
FulizaSelect(p) ==
  /\ proc[p].pc = "fulizaSelect"
  /\ \E i \in FirstOf(FulizaRows(DrawLookupStatuses)) :
       proc' = [proc EXCEPT ![p].debt = Snapshot(i), ![p].pc = "fulizaWrite"]
  /\ UNCHANGED << rawSms, transactions, debts, debtPayments, relatedMessages, now,
                  ui, uiOps, faults, facility, importer, call, services >>

\* processFulizaMessage: update the facility found, or insert a new one
FulizaWrite(p) ==
  /\ proc[p].pc = "fulizaWrite"
  /\ LET d == P(p).data
         e == proc[p].debt
     IN debts' = IF e.id # 0
                 THEN [debts EXCEPT ![e.id].totalOutstanding = d.totalOutstanding,
                                    ![e.id].lastUpdatedAmount = d.principal,
                                    ![e.id].feesCharged = e.feesCharged + d.fee,
                                    ![e.id].dueDate = d.dueDate]
                 ELSE Append(debts,
                        [type |-> "fuliza", principalAmount |-> d.principal,
                         feesCharged |-> d.fee, totalOutstanding |-> d.totalOutstanding,
                         lastUpdatedAmount |-> 0, dueDate |-> d.dueDate,
                         status |-> "active"])
  /\ facility' = [reported |-> P(p).data.totalOutstanding, repaid |-> 0]
  /\ proc' = [proc EXCEPT ![p].pc = "fulizaInsertTx"]
  /\ UNCHANGED << rawSms, transactions, debtPayments, relatedMessages, now, ui, uiOps,
                  faults, importer, call, services >>

\* processFulizaMessage: read the category, insert the classified transaction
FulizaInsertTx(p) ==
  /\ proc[p].pc = "fulizaInsertTx"
  /\ LET d == P(p).data
     IN transactions' = Append(transactions,
                          DebtTransaction(d.refCode, "debt", d.principal, d.fee,
                                          proc[p].rawId))
  /\ proc' = [proc EXCEPT ![p].pc = "markParsed"]
  /\ UNCHANGED << rawSms, debts, debtPayments, relatedMessages, now, ui,
                  uiOps, faults, facility, importer, call, services >>

\* processFulizaRepayment: look for the facility; without one the event is dropped
RepaySelect(p) ==
  /\ proc[p].pc = "repaySelect"
  /\ \E i \in FirstOf(FulizaRows(RepaymentLookupStatuses)) :
       proc' = [proc EXCEPT ![p].debt = Snapshot(i),
                            ![p].pc = IF i = 0 THEN "markParsed"
                                      ELSE "repayInsertPayment"]
  /\ UNCHANGED << rawSms, transactions, debts, debtPayments, relatedMessages, now,
                  ui, uiOps, faults, facility, importer, call, services >>

\* processFulizaRepayment: record the payment
RepayInsertPayment(p) ==
  /\ proc[p].pc = "repayInsertPayment"
  /\ debtPayments' = Append(debtPayments,
                            [debtId |-> proc[p].debt.id,
                             amount |-> P(p).data.amountRepaid, transactionId |-> 0])
  /\ proc' = [proc EXCEPT ![p].pc = "repayUpdateDebt"]
  /\ UNCHANGED << rawSms, transactions, debts, relatedMessages, now, ui,
                  uiOps, faults, facility, importer, call, services >>

\* processFulizaRepayment: the new balance and status of the facility
RepayUpdateDebt(p) ==
  /\ proc[p].pc = "repayUpdateDebt"
  /\ LET e == proc[p].debt
         newOutstanding == RepaymentOutstanding(e.totalOutstanding,
                                                P(p).data.amountRepaid)
     IN debts' = [debts EXCEPT ![e.id].totalOutstanding = newOutstanding,
                               ![e.id].status = RepaymentStatus(newOutstanding)]
  /\ facility' = [facility EXCEPT !.repaid = @ + P(p).data.amountRepaid]
  /\ proc' = [proc EXCEPT ![p].pc = "repayInsertTx"]
  /\ UNCHANGED << rawSms, transactions, debtPayments, relatedMessages, now, ui, uiOps,
                  faults, importer, call, services >>

\* processFulizaRepayment: read the category, insert the classified transaction
RepayInsertTx(p) ==
  /\ proc[p].pc = "repayInsertTx"
  /\ LET d == P(p).data
     IN transactions' = Append(transactions,
                          DebtTransaction(d.refCode, "debt_repayment", d.amountRepaid,
                                          0, proc[p].rawId))
  /\ proc' = [proc EXCEPT ![p].pc = "markParsed"]
  /\ UNCHANGED << rawSms, debts, debtPayments, relatedMessages, now, ui,
                  uiOps, faults, facility, importer, call, services >>


(***************************************************************************)
(* Manual debt operations, called from the screens of the app.  They run   *)
(* while no processIncomingSms call is in progress.                        *)
(***************************************************************************)
UiReady == \A p \in Procs : Settled(p)

UiDone(op, debtId, amount) ==
  /\ ui' = [op |-> op, debtId |-> debtId, amount |-> amount, pre |-> debts,
            preNow |-> now, repeat |-> (ui.op = op)]
  /\ uiOps' = uiOps + 1
  /\ proc' = Forget(proc)

createPersonalDebt(type, amount) ==
  /\ UiReady
  /\ debts' = Append(debts,
                [type |-> type, principalAmount |-> amount, feesCharged |-> 0,
                 totalOutstanding |-> amount, lastUpdatedAmount |-> 0,
                 dueDate |-> NoDueDate, status |-> "active"])
  /\ UiDone("createPersonalDebt", Len(debts) + 1, amount)
  /\ UNCHANGED << rawSms, transactions, debtPayments, relatedMessages, now, faults,
                  facility, importer, call, services >>

\* an unknown debtId throws before anything is written
recordPayment(debtId, amount) ==
  /\ UiReady
  /\ debtId \in Ids(debts)
  /\ debtPayments' = Append(debtPayments,
                            [debtId |-> debtId, amount |-> amount, transactionId |-> 0])
  /\ LET newOutstanding == PaymentOutstanding(debts[debtId].totalOutstanding, amount)
     IN debts' = [debts EXCEPT ![debtId].totalOutstanding = newOutstanding,
                               ![debtId].status = PaymentStatus(newOutstanding)]
  /\ UiDone("recordPayment", debtId, amount)
  /\ UNCHANGED << rawSms, transactions, relatedMessages, now, faults, facility,
                  importer, call, services >>

markAsPaid(debtId) ==
  /\ UiReady
  /\ debtId \in Ids(debts)
  /\ debts' = [debts EXCEPT ![debtId].totalOutstanding = 0, ![debtId].status = "paid"]
  /\ UiDone("markAsPaid", debtId, 0)
  /\ UNCHANGED << rawSms, transactions, debtPayments, relatedMessages, now, faults,
                  facility, importer, call, services >>

writeOff(debtId) ==
  /\ UiReady
  /\ debtId \in Ids(debts)
  /\ debts' = [debts EXCEPT ![debtId].status = "written_off"]
  /\ UiDone("writeOff", debtId, 0)
  /\ UNCHANGED << rawSms, transactions, debtPayments, relatedMessages, now, faults,
                  facility, importer, call, services >>

\* a comparison that counts the due instant itself as late
DueOrPast(dueDate, t) == dueDate <= t

isOverdue(dueDate, t) == dueDate < t

\* a sweep that charges a fee and leaves the status alone
SweptWithFee(debt) == [debt EXCEPT !.feesCharged = @ + 1]

\* checkOverdueDebts: the update of a debt found overdue
Swept(debt) == [debt EXCEPT !.status = "overdue"]

checkOverdueDebts ==
  /\ UiReady
  /\ \E t \in now..MaxNow :
       /\ now' = t
       /\ debts' = [i \in Ids(debts) |->
                      IF /\ debts[i].status \in {"active", "partially_paid"}
                         /\ debts[i].dueDate # NoDueDate
                         /\ isOverdue(debts[i].dueDate, t)
                      THEN Swept(debts[i])
                      ELSE debts[i]]
  /\ UiDone("checkOverdueDebts", 0, 0)
  /\ UNCHANGED << rawSms, transactions, debtPayments, relatedMessages, faults,
                  facility, importer, call, services >>

(***************************************************************************)
(* A persistence failure: the awaited statement of the current step throws *)
(* and the catch block of processIncomingSms turns it into a result.       *)
(***************************************************************************)
Caught(message) == [NoResult EXCEPT !.success = FALSE, !.error = message]

Fail(p) ==
  /\ ~Settled(p)
  /\ faults < MaxFaults
  /\ faults' = faults + 1
  /\ proc' = [proc EXCEPT ![p] =
                Returned([proc[p] EXCEPT !.faulted = TRUE], Caught("persistence"))]
  /\ UNCHANGED << rawSms, transactions, debts, debtPayments, relatedMessages, now,
                  ui, uiOps, facility, importer, call, services >>

(***************************************************************************)
(* Specifications.                                                         *)
(***************************************************************************)
Step(p) ==
  \/ InsertRaw(p) \/ MarkFailed(p) \/ FindExisting(p)
  \/ LinkSetRef(p) \/ LinkFind(p) \/ LinkCheck(p) \/ LinkInsert(p) \/ LinkMerge(p)
  \/ DupEnrich(p) \/ DupMarkParsed(p)
  \/ FulizaSelect(p) \/ FulizaWrite(p) \/ FulizaInsertTx(p)
  \/ RepaySelect(p) \/ RepayInsertPayment(p) \/ RepayUpdateDebt(p) \/ RepayInsertTx(p)
  \/ CreateTx(p) \/ MarkParsed(p)

\* one message at a time: a call starts when no other call is in progress
Start(p, m) ==
  /\ \A q \in Procs : Settled(q)
  /\ StartCall(p, m, MaxRaw)
  /\ UNCHANGED importer

ManualOp ==
  \/ \E type \in {"owed_to_person", "owed_by_person"}, amount \in 1..MaxAmount :
       createPersonalDebt(type, amount)
  \/ \E debtId \in Ids(debts), amount \in 1..MaxAmount : recordPayment(debtId, amount)
  \/ \E debtId \in Ids(debts) : markAsPaid(debtId)
  \/ \E debtId \in Ids(debts) : writeOff(debtId)
  \/ checkOverdueDebts

Manual ==
  /\ uiOps < MaxUiOps
  /\ ManualOp

\* sequential, timestamp-ordered use: the pipeline and the manual operations
Next ==
  \/ \E p \in Channels, m \in MsgIds : Start(p, m)
  \/ \E p \in Channels : Step(p)
  \/ Manual

Spec == Init /\ [][Next]_vars

\* the push listener and the poller call processIncomingSms independently
RaceStart(p, m) ==
  /\ StartCall(p, m, MaxRaceRaw)
  /\ UNCHANGED importer

RaceNext ==
  \/ \E p \in Channels, m \in RaceMsgIds : RaceStart(p, m)
  \/ \E p \in Channels : Step(p)

SpecRace == Init /\ [][RaceNext]_vars

\* sequential use with a database whose statements may fail
FaultNext ==
  \/ \E p \in Channels, m \in MsgIds : Start(p, m)
  \/ \E p \in Channels : Step(p)
  \/ \E p \in Channels : Fail(p)

SpecFault == Init /\ [][FaultNext]_vars

\* the debt ledger on its own: draws and repayments of the revolving facility,
\* one message at a time, and the manual operations between them
LedgerMsgIds == {"D1", "D2", "R1"}

LedgerManual ==
  /\ uiOps < MaxLedgerOps
  /\ ManualOp

\* the steps a call takes for these messages
LedgerStep(p) ==
  \/ InsertRaw(p) \/ FindExisting(p)
  \/ LinkSetRef(p) \/ LinkFind(p) \/ LinkCheck(p) \/ LinkInsert(p) \/ LinkMerge(p)
  \/ DupMarkParsed(p)
  \/ FulizaSelect(p) \/ FulizaWrite(p) \/ FulizaInsertTx(p)
  \/ RepaySelect(p) \/ RepayInsertPayment(p) \/ RepayUpdateDebt(p) \/ RepayInsertTx(p)
  \/ MarkParsed(p)

LedgerNext ==
  \/ \E p \in Channels, m \in LedgerMsgIds : Start(p, m)
  \/ \E p \in Channels : LedgerStep(p)
  \/ LedgerManual

SpecLedger == Init /\ [][LedgerNext]_vars

\* the debt ledger when the two channels process different messages at once:
\* nothing in the code makes a call wait for the other.  The first draw arrives
\* alone; the messages after it may arrive while a call is in progress.
LedgerRaceMsgIds == {"D1", "D2", "R2"}

LedgerRaceStart(p, m) ==
  /\ IF m = "D1"
     THEN rawSms = << >> /\ \A q \in Procs : Settled(q)
     ELSE rawSms # << >> /\ rawSms[1].parseStatus = "parsed"
  /\ StartCall(p, m, MaxRaw)
  /\ UNCHANGED importer

LedgerRaceNext ==
  \/ \E p \in Channels, m \in LedgerRaceMsgIds : LedgerRaceStart(p, m)
  \/ \E p \in Channels : LedgerStep(p)

SpecLedgerRace == Init /\ [][LedgerRaceNext]_vars

\* DataManagementService, run when no call is in progress.  Row ids are the
\* positions in the table, so they start again at 1 after clearAllData; nothing
\* the pipeline does depends on the value of an id, only on their order.
\* clearAllData: every table is emptied
clearAllData ==
  /\ UiReady
  /\ uiOps < MaxResets
  /\ debtPayments' = << >>
  /\ relatedMessages' = << >>
  /\ transactions' = << >>
  /\ debts' = << >>
  /\ rawSms' = << >>
  /\ facility' = [reported |-> 0, repaid |-> 0]
  /\ UiDone("clearAllData", 0, 0)
  /\ UNCHANGED << now, faults, importer, call, services >>

\* a reset that puts another message in the row
ResetAndBlanked(row) == [row EXCEPT !.parseStatus = "pending", !.msg = "X1"]

\* the update of clearTransactionsOnly: parseStatus 'pending', parsedAt null
ResetForReprocessing(row) == [row EXCEPT !.parseStatus = "pending"]

\* clearTransactionsOnly: the raw rows are kept and marked for re-processing
clearTransactionsOnly ==
  /\ UiReady
  /\ uiOps < MaxResets
  /\ debtPayments' = << >>
  /\ relatedMessages' = << >>
  /\ transactions' = << >>
  /\ debts' = << >>
  /\ rawSms' = [i \in Ids(rawSms) |-> ResetForReprocessing(rawSms[i])]
  /\ facility' = [reported |-> 0, repaid |-> 0]
  /\ UiDone("clearTransactionsOnly", 0, 0)
  /\ UNCHANGED << now, faults, importer, call, services >>

\* the pipeline, one message at a time, and the resets between the messages
ResetNext ==
  \/ \E p \in Channels, m \in MsgIds : Start(p, m)
  \/ \E p \in Channels : Step(p)
  \/ clearAllData
  \/ clearTransactionsOnly

SpecReset == Init /\ [][ResetNext]_vars

(***************************************************************************)
(* Historical import (importHistoricalSms): the batch is sorted by         *)
(* timestamp and handed to processIncomingSms one message at a time.       *)
(***************************************************************************)
\* the messages a batch is made of
ImportMsgIds == {"D1", "R1", "P1", "B1", "B0", "U1", "X1"}

Batches == UNION {[1..n -> ImportMsgIds] : n \in 1..MaxBatch}

\* a comparator that puts the newest message first
ByTimestampDescending(a, b) == Msg(b).ts - Msg(a).ts

\* the comparator of the sort: (a, b) => a.timestamp.getTime() - b.timestamp.getTime()
ByTimestamp(a, b) == Msg(a).ts - Msg(b).ts

\* [...messages].sort by timestamp, oldest first; equal timestamps keep their order
RECURSIVE SortByTimestamp(_)
SortByTimestamp(batch) ==
  IF batch = << >> THEN << >>
  ELSE LET x == batch[Len(batch)]
           rest == SortByTimestamp(SubSeq(batch, 1, Len(batch) - 1))
           k == Cardinality({i \in 1..Len(rest) : ByTimestamp(rest[i], x) <= 0})
       IN SubSeq(rest, 1, k) \o <<x>> \o SubSeq(rest, k + 1, Len(rest))

\* the counters after the result of the call that has just returned
Tallied(results, pr) ==
  IF pr.pc # "done" THEN results
  ELSE IF pr.result.success
       THEN IF pr.result.isDuplicate
            THEN [results EXCEPT !.duplicates = @ + 1]
            ELSE [results EXCEPT !.processed = @ + 1]
       ELSE [results EXCEPT !.failed = @ + 1]

ImportBegin(batch) ==
  /\ importer.pc = "idle"
  /\ \A q \in Procs : Settled(q)
  /\ importer' = [NoImport EXCEPT !.pc = "running", !.queue = SortByTimestamp(batch),
                                  !.results = [NoCounts EXCEPT !.total = Len(batch)],
                                  !.input = batch]
  /\ UNCHANGED << rawSms, transactions, debts, debtPayments, relatedMessages, now,
                  proc, ui, uiOps, faults, facility, call, services >>

\* the loop takes the next message: the previous result is counted and the call
\* for the next message begins
ImportStart ==
  /\ importer.pc = "running"
  /\ importer.queue # << >>
  /\ Settled("import")
  /\ StartCall("import", Head(importer.queue), MaxRaw)
  /\ importer' = [importer EXCEPT !.queue = Tail(@),
                                  !.results = Tallied(@, proc["import"]),
                                  !.taken = Append(@, Head(importer.queue))]

\* the loop is over: the last result is counted and the counters are returned
ImportFinish ==
  /\ importer.pc = "running"
  /\ importer.queue = << >>
  /\ Settled("import")
  /\ importer' = [importer EXCEPT !.pc = "done",
                                  !.results = Tallied(@, proc["import"])]
  /\ UNCHANGED << rawSms, transactions, debts, debtPayments, relatedMessages, now,
                  proc, ui, uiOps, faults, facility, call, services >>

\* the user asks for the running import to stop
RequestCancel ==
  /\ importer.pc = "running"
  /\ ~importer.cancelRequested
  /\ importer' = [importer EXCEPT !.cancelRequested = TRUE]
  /\ UNCHANGED << rawSms, transactions, debts, debtPayments, relatedMessages, now,
                  proc, ui, uiOps, faults, facility, call, services >>

ImportNext ==
  \/ \E batch \in Batches : ImportBegin(batch)
  \/ ImportStart
  \/ \E p \in Procs \ Channels : Step(p)
  \/ ImportFinish
  \/ RequestCancel

SpecImport == Init /\ [][ImportNext]_vars

\* the tables, the clock and the calls of the pipeline
store == << rawSms, transactions, debts, debtPayments, relatedMessages, now, proc,
            ui, uiOps, faults, facility, importer >>

(***************************************************************************)
(* The loop of parseMessage on its own.  A body is given by the patterns   *)
(* of the table that match it; the loop tries the table from its first     *)
(* entry and returns at the first pattern that matches and whose record    *)
(* extractData builds.                                                     *)
(***************************************************************************)
\* a table that tries the generic send pattern first
SendFirst ==
  << "mpesa_send", "fuliza", "fuliza_auto_repayment", "fuliza_repayment",
     "mshwari_transfer", "mpesa_received", "bank_transfer", "mpesa_airtime",
     "mpesa_agent", "mpesa_till", "mpesa_paybill_alt", "mpesa_paybill",
     "bank_confirmation", "card_transaction" >>

\* the types of the PATTERNS table, in the order of the table
PATTERNS ==
  << "fuliza", "fuliza_auto_repayment", "fuliza_repayment", "mshwari_transfer",
     "mpesa_received", "bank_transfer", "mpesa_airtime", "mpesa_agent",
     "mpesa_till", "mpesa_paybill_alt", "mpesa_paybill", "mpesa_send",
     "bank_confirmation", "card_transaction" >>

SmsPatternType == {"fuliza", "fuliza_auto_repayment", "fuliza_repayment",
                   "mshwari_transfer", "mpesa_received", "bank_transfer",
                   "mpesa_airtime", "mpesa_agent", "mpesa_till", "mpesa_paybill_alt",
                   "mpesa_paybill", "mpesa_send", "bank_confirmation",
                   "card_transaction"}

\* extractData throws for the alternate paybill pattern when the date is written
\* with dashes, which the pattern admits: parseSmsDate splits at "/" only
ExtractThrows(type, dashedDate) == type = "mpesa_paybill_alt" /\ dashedDate

ParserCalls ==
  { [fn |-> "parseMessage", matches |-> ms, dashedDate |-> d, i |-> 1,
     patternType |-> ""] :
      ms \in {S \in SUBSET SmsPatternType : Cardinality(S) <= MaxMatches},
      d \in BOOLEAN }

\* one turn of the loop: the pattern at position i is tried
TryPattern ==
  /\ call.fn = "parseMessage"
  /\ call.patternType = ""
  /\ call.i <= Len(PATTERNS)
  /\ call' = IF /\ PATTERNS[call.i] \in call.matches
                /\ ~ExtractThrows(PATTERNS[call.i], call.dashedDate)
             THEN [call EXCEPT !.patternType = PATTERNS[call.i]]
             ELSE [call EXCEPT !.i = @ + 1]
  /\ UNCHANGED << store, services >>

\* the loop has run through the table
NoMatchingPattern ==
  /\ call.fn = "parseMessage"
  /\ call.patternType = ""
  /\ call.i > Len(PATTERNS)
  /\ call' = [call EXCEPT !.patternType = "unknown"]
  /\ UNCHANGED << store, services >>

ParserInit ==
  /\ EmptyStore
  /\ call \in {c \in ParserCalls : c.dashedDate => "mpesa_paybill_alt" \in c.matches}

ParserNext == TryPattern \/ NoMatchingPattern

SpecParser == ParserInit /\ [][ParserNext]_vars

(***************************************************************************)
(* parseAmountToCents on its own.  An amount capture is a sequence of      *)
(* characters.  parseFloat and the product by 100 are computed in floating *)
(* point: their result is the exact value with an error of unknown sign    *)
(* that is far smaller than a cent for amounts of this size, so that it    *)
(* decides the rounding only when the exact value lies on a boundary.      *)
(***************************************************************************)
DigitChars == {"0", "3", "5"}

DigitOf(c) ==
  CASE c = "0" -> 0 [] c = "1" -> 1 [] c = "2" -> 2 [] c = "3" -> 3 [] c = "4" -> 4
    [] c = "5" -> 5 [] c = "6" -> 6 [] c = "7" -> 7 [] c = "8" -> 8 [] c = "9" -> 9

IsDigit(c) == c \in {"0", "1", "2", "3", "4", "5", "6", "7", "8", "9"}

Seqs(chars, n) == UNION {[1..k -> chars] : k \in 0..n}

\* the captures tried: what the amount group [\d,]+(?:\.\d{2})? can capture, and
\* strings close to those
AmountStrings ==
  {int \o frac : int \in Seqs(DigitChars \cup {","}, MaxIntChars),
                 frac \in {<< >>} \cup {<<".">> \o f : f \in Seqs(DigitChars, MaxFracDigits)}}

\* amountStr.replace(/,/g, '')
StripCommas(str) == SelectSeq(str, LAMBDA c : c # ",")

\* the number of leading digits of str from position from
RECURSIVE DigitRun(_, _)
DigitRun(str, from) ==
  IF from <= Len(str) /\ IsDigit(str[from]) THEN 1 + DigitRun(str, from + 1) ELSE 0

\* the number a sequence of digits writes
RECURSIVE DigitsValue(_)
DigitsValue(digits) ==
  IF digits = << >> THEN 0
  ELSE 10 * DigitsValue(SubSeq(digits, 1, Len(digits) - 1)) + DigitOf(digits[Len(digits)])

RECURSIVE Pow10(_)
Pow10(k) == IF k = 0 THEN 1 ELSE 10 * Pow10(k - 1)

\* parseFloat: the longest prefix digits[.digits] is read; without a digit the
\* result is NaN.  The value is whole + fraction / 10^scale.
parseFloat(str) ==
  LET intLen == DigitRun(str, 1)
      fracLen == IF intLen < Len(str) /\ str[intLen + 1] = "."
                 THEN DigitRun(str, intLen + 2) ELSE 0
  IN [ nan |-> intLen + fracLen = 0,
       whole |-> DigitsValue(SubSeq(str, 1, intLen)),
       fraction |-> DigitsValue(SubSeq(str, intLen + 2, intLen + 1 + fracLen)),
       scale |-> fracLen ]

\* a rounding that cuts the fraction off
MathFloor(num, den, err) ==
  IF num % den = 0 /\ err < 0 THEN (num \div den) - 1 ELSE num \div den

\* Math.round of num / den + err: to the nearest integer, a half goes up
MathRound(num, den, err) ==
  IF 2 * (num % den) > den \/ (2 * (num % den) = den /\ err >= 0)
  THEN (num \div den) + 1
  ELSE num \div den

\* parseAmountToCents, err being the sign of the floating-point error
parseAmountToCents(amountStr, err) ==
  LET amount == parseFloat(StripCommas(amountStr))
  IN IF amount.nan THEN [nan |-> TRUE, cents |-> 0]
     ELSE [nan |-> FALSE,
           cents |-> 100 * amount.whole
                       + IF amount.scale <= 2
                         THEN MathRound(amount.fraction * Pow10(2 - amount.scale), 1, err)
                         ELSE MathRound(amount.fraction, Pow10(amount.scale - 2), err)]

NoAmount == [nan |-> FALSE, cents |-> 0]

AmountInit ==
  /\ EmptyStore
  /\ call \in {[fn |-> "parseAmountToCents", amountStr |-> str, returned |-> FALSE,
                 result |-> NoAmount] : str \in AmountStrings}

ParseAmount ==
  /\ call.fn = "parseAmountToCents"
  /\ ~call.returned
  /\ \E err \in {0 - 1, 0, 1} :
       call' = [call EXCEPT !.returned = TRUE,
                            !.result = parseAmountToCents(call.amountStr, err)]
  /\ UNCHANGED << store, services >>

SpecAmount == AmountInit /\ [][ParseAmount]_vars


(***************************************************************************)
(* The sender and keyword filter on its own.  A sender and a body are      *)
(* sequences of characters.                                                *)
(***************************************************************************)
LowerCase == <<"a", "b", "c", "d", "e", "f", "g", "h", "i", "j", "k", "l", "m",
               "n", "o", "p", "q", "r", "s", "t", "u", "v", "w", "x", "y", "z">>

UpperCase == <<"A", "B", "C", "D", "E", "F", "G", "H", "I", "J", "K", "L", "M",
               "N", "O", "P", "Q", "R", "S", "T", "U", "V", "W", "X", "Y", "Z">>

\* String.prototype.toUpperCase
toUpperCase(str) ==
  [i \in 1..Len(str) |->
     IF \E k \in 1..Len(LowerCase) : LowerCase[k] = str[i]
     THEN UpperCase[CHOOSE k \in 1..Len(LowerCase) : LowerCase[k] = str[i]]
     ELSE str[i]]

\* String.prototype.trim
trim(str) ==
  LET inked == {i \in 1..Len(str) : str[i] # " "}
  IN IF inked = {} THEN << >>
     ELSE SubSeq(str, CHOOSE i \in inked : \A j \in inked : i <= j,
                      CHOOSE i \in inked : \A j \in inked : j <= i)

\* String.prototype.includes
includes(str, part) ==
  \E from \in 1..(Len(str) - Len(part) + 1) :
     SubSeq(str, from, from + Len(part) - 1) = part

\* the list without its dashed M-PESA entry
SendersWithoutDashed ==
  <<<<"M", "P", "E", "S", "A">>,
    <<"S", "A", "F", "A", "R", "I", "C", "O", "M">>,
    <<"K", "C", "B">>,
    <<"K", "C", "B", "M", "P", "E", "S", "A">>,
    <<"E", "Q", "U", "I", "T", "E", "L">>,
    <<"E", "Q", "U", "I", "T", "Y">>,
    <<"C", "O", "O", "P">>,
    <<"C", "O", "O", "P", "E", "R", "A", "T", "I", "V", "E">>,
    <<"C", "O", "-", "O", "P", "E", "R", "A", "T", "I", "V", "E">>,
    <<"A", "B", "S", "A">>,
    <<"N", "C", "B", "A">>,
    <<"S", "T", "A", "N", "B", "I", "C">>,
    <<"D", "T", "B">>,
    <<"F", "A", "M", "I", "L", "Y">>,
    <<"I", "&", "M">>,
    <<"S", "I", "D", "I", "A", "N">>,
    <<"H", "F">>,
    <<"E", "C", "O", "B", "A", "N", "K">>,
    <<"S", "T", "A", "N", "D", "A", "R", "D">>,
    <<"P", "R", "I", "M", "E">>,
    <<"C", "R", "E", "D", "I", "T">>>>

FINANCIAL_SENDERS ==
  <<<<"M", "P", "E", "S", "A">>,
    <<"M", "-", "P", "E", "S", "A">>,
    <<"S", "A", "F", "A", "R", "I", "C", "O", "M">>,
    <<"K", "C", "B">>,
    <<"K", "C", "B", "M", "P", "E", "S", "A">>,
    <<"E", "Q", "U", "I", "T", "E", "L">>,
    <<"E", "Q", "U", "I", "T", "Y">>,
    <<"C", "O", "O", "P">>,
    <<"C", "O", "O", "P", "E", "R", "A", "T", "I", "V", "E">>,
    <<"C", "O", "-", "O", "P", "E", "R", "A", "T", "I", "V", "E">>,
    <<"A", "B", "S", "A">>,
    <<"N", "C", "B", "A">>,
    <<"S", "T", "A", "N", "B", "I", "C">>,
    <<"D", "T", "B">>,
    <<"F", "A", "M", "I", "L", "Y">>,
    <<"I", "&", "M">>,
    <<"S", "I", "D", "I", "A", "N">>,
    <<"H", "F">>,
    <<"E", "C", "O", "B", "A", "N", "K">>,
    <<"S", "T", "A", "N", "D", "A", "R", "D">>,
    <<"P", "R", "I", "M", "E">>,
    <<"C", "R", "E", "D", "I", "T">>>>

getSenderType(sender) ==
  LET normalized == trim(toUpperCase(sender))
  IN IF includes(normalized, <<"M", "P", "E", "S", "A">>) \/ includes(normalized, <<"M", "-", "P", "E", "S", "A">>)
     THEN "mpesa"
     ELSE IF \E k \in 1..Len(FINANCIAL_SENDERS) :
                /\ includes(normalized, FINANCIAL_SENDERS[k])
                /\ ~includes(normalized, <<"M", "P", "E", "S", "A">>)
          THEN "bank"
          ELSE "unknown"

isFinancialSender(sender) ==
  LET normalized == trim(toUpperCase(sender))
  IN \E k \in 1..Len(FINANCIAL_SENDERS) : includes(normalized, FINANCIAL_SENDERS[k])

\* the keywords of hasFinancialKeywords
keywords ==
  <<<<"C", "o", "n", "f", "i", "r", "m", "e", "d">>,
    <<"K", "s", "h">>,
    <<"K", "E", "S">>,
    <<"s", "e", "n", "t", " ", "t", "o">>,
    <<"r", "e", "c", "e", "i", "v", "e", "d">>,
    <<"t", "r", "a", "n", "s", "f", "e", "r", "r", "e", "d">>,
    <<"t", "r", "a", "n", "s", "a", "c", "t", "i", "o", "n">>,
    <<"b", "a", "l", "a", "n", "c", "e">>,
    <<"M", "-", "P", "E", "S", "A">>,
    <<"M", "P", "E", "S", "A">>,
    <<"F", "u", "l", "i", "z", "a">>,
    <<"c", "a", "r", "d">>,
    <<"p", "a", "y", "b", "i", "l", "l">>>>

\* hasFinancialKeywords on the characters of a body
bodyHasFinancialKeywords(body) ==
  LET upperBody == toUpperCase(body)
  IN \E k \in 1..Len(keywords) : includes(upperBody, toUpperCase(keywords[k]))

\* shouldProcess on the characters of a sender and a body
shouldProcessSms(sender, body) ==
  IF isFinancialSender(sender) THEN TRUE
  ELSE IF bodyHasFinancialKeywords(body) THEN TRUE
  ELSE FALSE

SenderParts ==
  {<<"M">>,
   <<"M", "-">>,
   <<"P", "E", "S", "A">>,
   <<"M", "P", "E", "S", "A">>,
   <<"m", "p", "e", "s", "a">>,
   <<"K", "c", "b">>,
   <<"H", "F">>,
   <<" ">>,
   <<"X">>,
   <<"I", "&", "M">>,
   <<"C", "o">>,
   <<"o", "p">>,
   <<"+", "2", "5", "4", "7">>}

BodyParts ==
  {<<"K", "s", "h">>,
   <<"k", "s", "h">>,
   <<"c", "a", "r", "d">>,
   <<"C", "a", "r">>,
   <<"d">>,
   <<"H", "e", "l", "l", "o">>,
   <<" ">>,
   <<"s", "e", "n", "t">>,
   <<"t", "o">>,
   <<"M", "-", "P", "E", "S", "A">>}

RECURSIVE Joined(_, _)
Joined(parts, n) ==
  IF n = 0 THEN {<< >>}
  ELSE Joined(parts, n - 1) \cup {a \o b : a \in Joined(parts, n - 1), b \in parts}

FilterInit ==
  /\ EmptyStore
  /\ call \in {[fn |-> "shouldProcess", sender |-> sender, body |-> body,
                 returned |-> FALSE, result |-> FALSE] :
                  sender \in Joined(SenderParts, MaxSenderParts),
                  body \in Joined(BodyParts, MaxBodyParts)}

ShouldProcess ==
  /\ call.fn = "shouldProcess"
  /\ ~call.returned
  /\ call' = [call EXCEPT !.returned = TRUE,
                          !.result = shouldProcessSms(call.sender, call.body)]
  /\ UNCHANGED << store, services >>

SpecFilter == FilterInit /\ [][ShouldProcess]_vars


(***************************************************************************)
(* SettingsService, for the one key the poller uses.  The value of the key *)
(* is the decimal string of a timestamp, kept here as the number it        *)
(* writes, or null.                                                        *)
(***************************************************************************)
\* the value a SELECT of the key gives: setting?.value ?? null
StoredValue(s) == IF s.db.exists THEN s.db.value ELSE Null

\* no get or set of caller k is running
SettingsCallOver(s, k) == s.calls[k].pc \in {"idle", "returned", "thrown"}

\* get, up to its SELECT: a cached key is returned at once
GetEntered(s, k) ==
  [s EXCEPT !.calls[k] =
     IF s.cache.has
     THEN [NoSettingsCall EXCEPT !.op = "get", !.pc = "returned", !.value = s.cache.value]
     ELSE [NoSettingsCall EXCEPT !.op = "get", !.pc = "select"]]

\* get: the SELECT, the cache entry, the return
GetSelected(s, k) ==
  [s EXCEPT !.cache = [has |-> TRUE, value |-> StoredValue(s)],
            !.calls[k] = [NoSettingsCall EXCEPT !.op = "get", !.pc = "returned",
                                                !.value = StoredValue(s)]]

\* set, up to its SELECT
SetEntered(s, k, value) ==
  [s EXCEPT !.calls[k] = [NoSettingsCall EXCEPT !.op = "set", !.pc = "select",
                                                !.value = value]]

\* set: the SELECT of the existing rows
SetSelected(s, k) ==
  [s EXCEPT !.calls[k].existing = s.db.exists, !.calls[k].pc = "write"]

\* a set that writes the row and leaves the cache as it is
SetWrittenPastCache(s, k) ==
  IF ~s.calls[k].existing /\ s.db.exists
  THEN [s EXCEPT !.calls[k].pc = "thrown"]
  ELSE [s EXCEPT !.db = [exists |-> TRUE, value |-> s.calls[k].value],
                 !.calls[k].pc = "returned",
                 !.lastSet = s.calls[k].value]

\* set: the UPDATE, or the INSERT, which the unique key rejects when the row
\* has been inserted since the SELECT; then the cache entry and the return
SetWritten(s, k) ==
  IF ~s.calls[k].existing /\ s.db.exists
  THEN [s EXCEPT !.calls[k].pc = "thrown"]
  ELSE [s EXCEPT !.db = [exists |-> TRUE, value |-> s.calls[k].value],
                 !.cache = [has |-> TRUE, value |-> s.calls[k].value],
                 !.calls[k].pc = "returned",
                 !.lastSet = s.calls[k].value]

\* a caller other than the poller calls get
SettingsGet(k) ==
  /\ SettingsCallOver(settings, k)
  /\ polls[k].pc = "idle"
  /\ settings' = GetEntered(settings, k)
  /\ UNCHANGED << store, call, polls, inbox, listener >>

\* a caller other than the poller calls set
SettingsSet(k, value) ==
  /\ SettingsCallOver(settings, k)
  /\ polls[k].pc = "idle"
  /\ settings' = SetEntered(settings, k, value)
  /\ UNCHANGED << store, call, polls, inbox, listener >>

GetSelect(k) ==
  /\ settings.calls[k].op = "get"
  /\ settings.calls[k].pc = "select"
  /\ settings' = GetSelected(settings, k)
  /\ UNCHANGED << store, call, polls, inbox, listener >>

SetSelect(k) ==
  /\ settings.calls[k].op = "set"
  /\ settings.calls[k].pc = "select"
  /\ settings' = SetSelected(settings, k)
  /\ UNCHANGED << store, call, polls, inbox, listener >>

SetWrite(k) ==
  /\ settings.calls[k].op = "set"
  /\ settings.calls[k].pc = "write"
  /\ settings' = SetWritten(settings, k)
  /\ UNCHANGED << store, call, polls, inbox, listener >>

SettingsNext ==
  \/ \E k \in PollChecks : SettingsGet(k)
  \/ \E k \in PollChecks, value \in {Null} \cup 1..MaxSetting : SettingsSet(k, value)
  \/ \E k \in PollChecks : GetSelect(k)
  \/ \E k \in PollChecks : SetSelect(k)
  \/ \E k \in PollChecks : SetWrite(k)

SpecSettings == Init /\ [][SettingsNext]_vars

(***************************************************************************)
(* SmsPollingService.checkForNewSms.  A check reads the stored timestamp,  *)
(* lists the inbox of the device from it, passes the financial messages to *)
(* processIncomingSms oldest first, and stores the timestamp to read from  *)
(* next time.  Nothing makes a check wait for a check in progress.         *)
(***************************************************************************)
\* the messages the device receives
PollMsgIds == {"N1", "P1", "B1"}

\* Date.now() minus 24 hours, when no timestamp is stored: the messages of the
\* inbox are all of the last day
DefaultSince == 0

\* the device receives m
Arrive(m) ==
  /\ m \notin inbox
  /\ inbox' = inbox \cup {m}
  /\ UNCHANGED << store, call, settings, polls, listener >>

\* checkForNewSms, up to the SELECT of getLastProcessedTimestamp
PollBegin(c) ==
  /\ polls[c].pc = "idle"
  /\ SettingsCallOver(settings, c)
  /\ settings' = GetEntered(settings, c)
  /\ polls' = [polls EXCEPT ![c] = [IdleCheck EXCEPT !.pc = "get"]]
  /\ UNCHANGED << store, call, inbox, listener >>

\* the timestamp is back and the device has listed its inbox: the filter, and
\* with no financial message the timestamp after the newest message listed.
\* The list reaches a check with financial messages when no loop is running.
PollRead(c) ==
  /\ polls[c].pc = "get"
  /\ settings.calls[c].pc = "returned"
  /\ LET value == settings.calls[c].value
         lastTimestamp == IF value = Null THEN DefaultSince ELSE value
         messages == {m \in inbox : Msg(m).ts >= lastTimestamp}
         financialMessages == {m \in messages : shouldProcess(m)}
         newest == CHOOSE m \in messages : \A o \in messages : Msg(o).ts <= Msg(m).ts
     IN IF financialMessages # {}
        THEN /\ \A d \in PollChecks : polls[d].pc # "loop"
             /\ polls' = [polls EXCEPT ![c] =
                            [IdleCheck EXCEPT !.pc = "loop",
                                              !.lastTimestamp = lastTimestamp,
                                              !.queue = financialMessages,
                                              !.maxTimestamp = lastTimestamp]]
             /\ UNCHANGED settings
        ELSE IF messages # {}
        THEN /\ polls' = [polls EXCEPT ![c] =
                            [IdleCheck EXCEPT !.pc = "set",
                                              !.lastTimestamp = lastTimestamp]]
             /\ settings' = SetEntered(settings, c, Msg(newest).ts + 1)
        ELSE /\ polls' = [polls EXCEPT ![c] = IdleCheck]
             /\ UNCHANGED settings
  /\ UNCHANGED << store, call, inbox, listener >>

\* the loop passes the oldest message left to processIncomingSms
PollTake(c) ==
  /\ polls[c].pc = "loop"
  /\ proc["poll"].pc = "idle"
  /\ \E m \in polls[c].queue :
       /\ \A o \in polls[c].queue : ByTimestamp(m, o) <= 0
       /\ StartCall("poll", m, MaxRaw)
  /\ UNCHANGED importer

\* the call is back: maxTimestamp = Math.max(maxTimestamp, msg.date) whatever
\* the result says, and after the last message setLastProcessedTimestamp
PollResult(c) ==
  /\ polls[c].pc = "loop"
  /\ proc["poll"].pc = "done"
  /\ LET m == proc["poll"].msg
         rest == polls[c].queue \ {m}
         maxTimestamp == Max2(polls[c].maxTimestamp, Msg(m).ts)
         failed == IF proc["poll"].faulted THEN polls[c].failed \cup {m}
                   ELSE polls[c].failed \ {m}
     IN /\ proc' = [proc EXCEPT !["poll"] = IdleProc]
        /\ polls' = [polls EXCEPT ![c].queue = rest,
                                  ![c].maxTimestamp = maxTimestamp,
                                  ![c].failed = failed,
                                  ![c].pc = IF rest = {} THEN "set" ELSE "loop"]
        /\ settings' = IF rest = {} THEN SetEntered(settings, c, maxTimestamp + 1)
                       ELSE settings
  /\ UNCHANGED << rawSms, transactions, debts, debtPayments, relatedMessages, now,
                  ui, uiOps, faults, facility, importer, call, inbox, listener >>

\* set has returned, or has thrown into the catch of setLastProcessedTimestamp:
\* the check returns
PollDone(c) ==
  /\ polls[c].pc = "set"
  /\ settings.calls[c].pc \in {"returned", "thrown"}
  /\ polls' = [polls EXCEPT ![c] = IdleCheck]
  /\ UNCHANGED << store, call, settings, inbox, listener >>

\* the steps a call takes for these messages
PollStep(p) ==
  \/ InsertRaw(p) \/ FindExisting(p)
  \/ LinkSetRef(p) \/ LinkFind(p) \/ LinkCheck(p) \/ LinkInsert(p) \/ LinkMerge(p)
  \/ DupEnrich(p) \/ DupMarkParsed(p)
  \/ CreateTx(p) \/ MarkParsed(p)

PollNext ==
  \/ \E m \in PollMsgIds : Arrive(m)
  \/ \E c \in PollChecks : PollBegin(c)
  \/ \E c \in PollChecks : PollRead(c)
  \/ \E c \in PollChecks : PollTake(c)
  \/ \E c \in PollChecks : PollResult(c)
  \/ \E c \in PollChecks : PollDone(c)
  \/ \E c \in PollChecks : GetSelect(c)
  \/ \E c \in PollChecks : SetSelect(c)
  \/ \E c \in PollChecks : SetWrite(c)
  \/ PollStep("poll")
  \/ Fail("poll")

SpecPoll == Init /\ [][PollNext]_vars

(***************************************************************************)
(* SmsBroadcastService: the subscription of the push listener to the       *)
(* 'onSmsReceived' event.  No message is pending when the listener starts. *)
(***************************************************************************)
\* startListening, up to its first await: the isListening check
startListening(k) ==
  /\ listener.calls[k] \in {"idle", "returned"}
  /\ listener.created < MaxSubscriptions
  /\ listener' = [listener EXCEPT !.calls[k] =
                    IF listener.isListening THEN "returned" ELSE "permission"]
  /\ UNCHANGED << store, call, settings, polls, inbox >>

\* the permission is there or is granted, and processPendingSms is awaited; or
\* it is denied and the call returns false
PermissionChecked(k) ==
  /\ listener.calls[k] = "permission"
  /\ \E hasPermission \in BOOLEAN :
       listener' = [listener EXCEPT !.calls[k] =
                      IF hasPermission THEN "pending" ELSE "returned"]
  /\ UNCHANGED << store, call, settings, polls, inbox >>

\* processPendingSms is back: addListener, this.subscription, isListening
Subscribe(k) ==
  /\ listener.calls[k] = "pending"
  /\ LET id == listener.created + 1
     IN listener' = [listener EXCEPT !.created = id,
                                     !.active = @ \cup {id},
                                     !.subscription = id,
                                     !.isListening = TRUE,
                                     !.calls[k] = "returned"]
  /\ UNCHANGED << store, call, settings, polls, inbox >>

\* stopListening removes the subscription the field holds
stopListening ==
  /\ listener' = [listener EXCEPT !.active = @ \ {listener.subscription},
                                  !.subscription = 0,
                                  !.isListening = FALSE]
  /\ UNCHANGED << store, call, settings, polls, inbox >>

\* the native module emits 'onSmsReceived': every subscription registered on
\* the emitter runs handleSmsReceived
onSmsReceived ==
  /\ listener' = [listener EXCEPT !.handled = Cardinality(listener.active)]
  /\ UNCHANGED << store, call, settings, polls, inbox >>

ListenerNext ==
  \/ \E k \in ListenerCalls : startListening(k)
  \/ \E k \in ListenerCalls : PermissionChecked(k)
  \/ \E k \in ListenerCalls : Subscribe(k)
  \/ stopListening
  \/ onSmsReceived

SpecListener == Init /\ [][ListenerNext]_vars


(***************************************************************************)
(* Properties.                                                             *)
(***************************************************************************)
OpenStatuses == {"active", "partially_paid"}

DebtDialects == {"fuliza", "fuliza_repayment", "fuliza_auto_repayment"}

\* a call that passed the filter, parsed its message and returned
Finished(p) ==
  /\ proc[p].pc = "done"
  /\ proc[p].rawId # 0
  /\ P(p).success

TransactionsOfRaw(rawId) == {i \in Ids(transactions) : transactions[i].rawSmsId = rawId}

TransactionsOfMessage(m) ==
  {i \in Ids(transactions) : rawSms[transactions[i].rawSmsId].msg = m}

OpenFacilities(table) ==
  {i \in Ids(table) : table[i].type = "fuliza" /\ table[i].status \in OpenStatuses}

\* C1: whatever the interleaving of the push and the poll call for one event, at
\* most one Transaction with a given primary reference code is ever persisted.
C1_OneTransactionPerRefCode ==
  \A i, j \in Ids(transactions) :
    transactions[i].primaryRefCode = transactions[j].primaryRefCode => i = j

\* C2: when a message that parses is processed twice in succession, the second
\* call reports duplicate and exactly one Transaction exists for the message.
C2_SecondCallIsDuplicate ==
  \A p \in Procs :
    (Finished(p) /\ proc[p].repeat /\ ~proc[p].faulted)
      => /\ proc[p].result.isDuplicate
         /\ Cardinality(TransactionsOfMessage(proc[p].msg)) = 1

\* C3: at most one revolving-facility Debt is active or partially_paid.
C3_AtMostOneOpenFacility == Cardinality(OpenFacilities(debts)) <= 1

\* C4: after each draw or repayment event the facility's total_outstanding is not
\* negative and equals max(0, outstanding reported by the last draw - repayments
\* applied since).
C4_OutstandingFollowsLastReport ==
  ((\A p \in Procs : Settled(p)) /\ uiOps = 0)
    => \A i \in OpenFacilities(debts) :
         /\ debts[i].totalOutstanding >= 0
         /\ debts[i].totalOutstanding = Max2(0, facility.reported - facility.repaid)

\* the repayment event of call p was applied to a facility
RepaymentApplied(p) ==
  /\ Finished(p)
  /\ P(p).patternType = "fuliza_repayment"
  /\ ~proc[p].result.isDuplicate
  /\ proc[p].debt.id # 0

\* C5: total_outstanding of every Debt is >= 0 in every state, and a repayment
\* (parsed, or a manual recordPayment) larger than the outstanding amount leaves
\* exactly zero.
C5_OutstandingNeverNegative ==
  /\ \A i \in Ids(debts) : debts[i].totalOutstanding >= 0
  /\ \A p \in Procs :
       (RepaymentApplied(p)
          /\ P(p).data.amountRepaid > proc[p].pre.debts[proc[p].debt.id].totalOutstanding)
         => debts[proc[p].debt.id].totalOutstanding = 0
  /\ (ui.op = "recordPayment" /\ ui.amount > ui.pre[ui.debtId].totalOutstanding)
       => debts[ui.debtId].totalOutstanding = 0

C5_Witness ==
  \E p \in Procs :
    /\ RepaymentApplied(p)
    /\ P(p).data.amountRepaid > proc[p].pre.debts[proc[p].debt.id].totalOutstanding

\* C6: a repayment event that finds an open facility appends one DebtPayment of
\* the repaid amount, sets total_outstanding to max(0, previous - repaid), sets
\* the status to paid at exactly zero and to partially_paid otherwise, and emits
\* one classified Transaction of type debt_repayment.
C6_RepaymentApplied ==
  \A p \in Procs :
    ( /\ Finished(p)
      /\ P(p).patternType = "fuliza_repayment"
      /\ ~proc[p].result.isDuplicate
      /\ OpenFacilities(proc[p].pre.debts) # {} )
    => LET id == proc[p].debt.id
           before == proc[p].pre
           repaid == P(p).data.amountRepaid
           expected == Max2(0, before.debts[id].totalOutstanding - repaid)
       IN /\ id \in OpenFacilities(before.debts)
          /\ Len(debtPayments) = before.nPay + 1
          /\ debtPayments[Len(debtPayments)].debtId = id
          /\ debtPayments[Len(debtPayments)].amount = repaid
          /\ debts = [before.debts EXCEPT
                        ![id].totalOutstanding = expected,
                        ![id].status = IF expected = 0 THEN "paid" ELSE "partially_paid"]
          /\ Len(transactions) = before.nTx + 1
          /\ transactions[Len(transactions)].type = "debt_repayment"
          /\ transactions[Len(transactions)].status = "classified"
          /\ transactions[Len(transactions)].primaryRefCode = P(p).data.refCode
          /\ transactions[Len(transactions)].amount = repaid

C6_Witness ==
  \E p \in Procs :
    /\ RepaymentApplied(p)
    /\ debts[proc[p].debt.id].status = "paid"
    /\ Len(debtPayments) = proc[p].pre.nPay + 1

\* C7: a draw that finds an active or partially_paid facility updates that row in
\* place (fee added, total_outstanding and due_date replaced); without such a
\* facility it creates exactly one new Debt row with status active.
C7_DrawUpdatesOpenFacility ==
  \A p \in Procs :
    (Finished(p) /\ P(p).patternType = "fuliza" /\ proc[p].result.success
       /\ ~proc[p].result.isDuplicate)
    => LET before == proc[p].pre.debts
           d == P(p).data
       IN IF OpenFacilities(before) # {}
          THEN \E i \in OpenFacilities(before) :
                 debts = [before EXCEPT ![i].feesCharged = @ + d.fee,
                                        ![i].totalOutstanding = d.totalOutstanding,
                                        ![i].lastUpdatedAmount = d.principal,
                                        ![i].dueDate = d.dueDate]
          ELSE /\ Len(debts) = Len(before) + 1
               /\ SubSeq(debts, 1, Len(before)) = before
               /\ debts[Len(debts)].type = "fuliza"
               /\ debts[Len(debts)].status = "active"

\* C8: a parsed draw or repayment variant with no Transaction for its reference
\* code goes to the debt ledger: no pending_classification Transaction is created
\* for it and the call returns processed with needsClassification = false.
C8_DebtEventsSkipClassification ==
  \A p \in Procs :
    (Finished(p) /\ P(p).patternType \in DebtDialects /\ proc[p].result.success
       /\ ~proc[p].result.isDuplicate)
    => /\ ~proc[p].result.needsClassification
       /\ \A i \in TransactionsOfRaw(proc[p].rawId) :
            transactions[i].status # "pending_classification"

\* C9: after a call in which a persistence write failed, no Transaction, Debt
\* change or DebtPayment of that call is persisted while its RawMessage is pending.
C9_NoPartialApplication ==
  \A p \in Procs :
    ( /\ proc[p].pc = "done"
      /\ proc[p].faulted
      /\ proc[p].rawId # 0
      /\ rawSms[proc[p].rawId].parseStatus = "pending" )
    => /\ TransactionsOfRaw(proc[p].rawId) = {}
       /\ debts = proc[p].pre.debts
       /\ Len(debtPayments) = proc[p].pre.nPay

\* C10: a persistence failure during processMessage reaches the caller as a hard
\* failure, not as a returned result.
C10_FailurePropagates ==
  \A p \in Procs :
    (proc[p].pc = "done" /\ proc[p].faulted) => proc[p].result.thrown

\* the repayment event of call p found no facility to apply to
RepaymentUnanchored(p) ==
  /\ Finished(p)
  /\ P(p).patternType = "fuliza_repayment"
  /\ ~proc[p].result.isDuplicate
  /\ OpenFacilities(proc[p].pre.debts) = {}

\* C11: a repayment event that finds no active or partially_paid facility is
\* dropped: no DebtPayment, no Debt row created or changed, no Transaction, and
\* the call completes normally with its raw row parsed.
C11_UnanchoredRepaymentDropped ==
  \A p \in Procs :
    RepaymentUnanchored(p)
      => /\ debtPayments = proc[p].pre.debtPayments
         /\ debts = proc[p].pre.debts
         /\ transactions = proc[p].pre.transactions
         /\ rawSms[proc[p].rawId].parseStatus = "parsed"
         /\ ~proc[p].result.thrown
         /\ ~proc[p].result.needsClassification
         /\ proc[p].result.transactionId = 0

\* a repayment was dropped although a facility, already paid, is on file
C11_Witness ==
  \E p \in Procs :
    /\ RepaymentUnanchored(p)
    /\ \E i \in Ids(debts) : debts[i].type = "fuliza" /\ debts[i].status = "paid"

\* the Transaction that call p found for its reference code, as it was before
ExistingBefore(p) ==
  CHOOSE i \in Ids(proc[p].pre.transactions) :
    proc[p].pre.transactions[i].primaryRefCode = P(p).data.refCode

\* call p took the duplicate path with a confirmation message and is past the
\* point where the existing Transaction may be rewritten
ConfirmationOfExisting(p) ==
  /\ proc[p].rawId # 0
  /\ P(p).patternType = "bank_confirmation"
  /\ \/ proc[p].pc = "dupMarkParsed"
     \/ proc[p].pc = "done" /\ proc[p].result.isDuplicate

\* the merge of the first k messages, in the order mergeRelatedMessages takes them
MergedUpTo(ids, k) ==
  MergeFold([NoMerged EXCEPT !.isNull = FALSE], SubSeq(SortByReceivedAt(ids), 1, k))

\* the name a confirmation message carries, "" for any other message
ConfirmationName(id) ==
  LET r == parseMessage(rawSms[id].msg, 0)
  IN IF r.success /\ r.data.type = "bank_confirmation" THEN r.data.name ELSE ""

\* in the merge of ids, no confirmation replaced a name at least as long as its own
MergeKeepsLongerName(ids) ==
  \A k \in 1..Len(ids) :
    LET id == SortByReceivedAt(ids)[k]
        current == MergedUpTo(ids, k - 1).counterparty
    IN (ConfirmationName(id) # "" /\ Len(ConfirmationName(id)) <= Len(current))
         => MergedUpTo(ids, k).counterparty = current

\* C12: a confirmation replaces the counterparty name, in the merged record and in
\* an existing Transaction on the duplicate path, only when its name is strictly
\* longer than the current one; otherwise the name stays.
C12_ConfirmationNameOnlyIfLonger ==
  \A p \in Procs :
    /\ proc[p].related # << >>
          => MergeKeepsLongerName(<<proc[p].rawId>> \o proc[p].related)
    /\ ConfirmationOfExisting(p)
          => LET before == proc[p].pre.transactions[ExistingBefore(p)].counterparty
             IN Len(P(p).data.name) <= Len(before)
                  => transactions[ExistingBefore(p)].counterparty = before

PrimaryChannelTypes == {"mpesa_send", "mpesa_paybill", "mpesa_received"}

\* call p has merged exactly two messages: raw row a from the primary channel and
\* raw row b, a confirmation whose name is longer than the primary one
MergedPair(p, a, b) ==
  /\ ~proc[p].merged.isNull
  /\ Len(proc[p].related) = 1
  /\ {a, b} = {proc[p].rawId, proc[p].related[1]}
  /\ parseMessage(rawSms[a].msg, 0).success
  /\ parseMessage(rawSms[a].msg, 0).data.type \in PrimaryChannelTypes
  /\ ConfirmationName(b) # ""
  /\ Len(ConfirmationName(b)) > Len(parseMessage(rawSms[a].msg, 0).data.name)

\* C13: merging a primary-channel message with a confirmation that has a longer
\* name gives the primary amount and date and the confirmation's name, whichever
\* of the two was received first.
C13_MergeIndependentOfOrder ==
  \A p \in Procs : \A a, b \in Ids(rawSms) :
    MergedPair(p, a, b)
      => LET primary == parseMessage(rawSms[a].msg, 0).data
         IN /\ proc[p].merged.amount = primary.amount
            /\ proc[p].merged.transactionDate = primary.transactionDate
            /\ proc[p].merged.counterparty = ConfirmationName(b)

\* the unordered pair of raw rows a link joins
LinkedPair(link) == {link.primarySmsId, link.secondarySmsId}

\* C14: at most one link row exists for an unordered pair of raw rows and a
\* reference code.
C14_OneLinkPerPair ==
  \A i, j \in Ids(relatedMessages) :
    ( /\ LinkedPair(relatedMessages[i]) = LinkedPair(relatedMessages[j])
      /\ relatedMessages[i].refCode = relatedMessages[j].refCode )
    => i = j

\* call p has returned after parsing a record whose reference code already had a
\* Transaction when the call began
FoundExisting(p) ==
  /\ proc[p].pc = "done"
  /\ proc[p].rawId # 0
  /\ P(p).success
  /\ \E i \in Ids(proc[p].pre.transactions) :
       proc[p].pre.transactions[i].primaryRefCode = P(p).data.refCode

\* the linker has captured raw row id for the reference code: when the body has
\* a code to scan, the row carries the reference code and is linked to every other
\* row carrying it
LinkerRan(id, refCode) ==
  extractRefCodes(rawSms[id].msg) # << >>
    => /\ rawSms[id].linkedRefCode = refCode
       /\ \A j \in Ids(rawSms) \ {id} :
            rawSms[j].linkedRefCode = refCode
              => \E k \in Ids(relatedMessages) :
                   /\ LinkedPair(relatedMessages[k]) = {id, j}
                   /\ relatedMessages[k].refCode = refCode

\* the fields of a Transaction the duplicate path must not touch
Core(tx) == << tx.amount, tx.transactionDate, tx.type, tx.primaryRefCode >>

C15_Witness ==
  \E p \in Procs :
    /\ FoundExisting(p)
    /\ transactions # proc[p].pre.transactions
    /\ relatedMessages # proc[p].pre.relatedMessages

\* the filter gate rejects message m
Rejected(m) ==
  \/ ~Msg(m).knownSender /\ ~Msg(m).keywords
  \/ Msg(m).failedKw

\* C16: a call whose message the filter gate rejects persists nothing: no raw row,
\* Transaction, Debt, DebtPayment or link is created or modified.
C16_RejectedPersistsNothing ==
  \A p \in Procs :
    (proc[p].pc = "done" /\ Rejected(proc[p].msg))
      => /\ rawSms = proc[p].pre.rawSms
         /\ transactions = proc[p].pre.transactions
         /\ debts = proc[p].pre.debts
         /\ debtPayments = proc[p].pre.debtPayments
         /\ relatedMessages = proc[p].pre.relatedMessages
         /\ proc[p].rawId = 0
         /\ ~proc[p].result.success

\* a message with a negative-outcome keyword that would parse was rejected while
\* the store already held rows
C16_Witness ==
  \E p \in Procs :
    /\ proc[p].pc = "done"
    /\ Msg(proc[p].msg).failedKw
    /\ Msg(proc[p].msg).dialect # "none"
    /\ rawSms # << >>
    /\ transactions # << >>

\* call p has returned for a message that passed the gate and matched no dialect
NoDialect(p) ==
  /\ proc[p].pc = "done"
  /\ proc[p].rawId # 0
  /\ Msg(proc[p].msg).dialect = "none"

\* C17: when no dialect matches, the raw row becomes failed with a non-empty
\* reason, no Transaction, Debt or DebtPayment is created, and the call returns a
\* parse failure without raising.
C17_NoMatchMarksFailed ==
  \A p \in Procs :
    NoDialect(p)
      => /\ rawSms[proc[p].rawId].parseStatus = "failed"
         /\ rawSms[proc[p].rawId].parseError # ""
         /\ transactions = proc[p].pre.transactions
         /\ debts = proc[p].pre.debts
         /\ debtPayments = proc[p].pre.debtPayments
         /\ ~proc[p].result.success
         /\ proc[p].result.rawSmsId = proc[p].rawId
         /\ proc[p].result.error # ""
         /\ ~proc[p].result.thrown

\* an unparseable message was recorded as failed after an earlier message of the
\* batch and with the pipeline ready for the next one
C17_Witness ==
  \E p \in Procs :
    /\ NoDialect(p)
    /\ rawSms[proc[p].rawId].parseStatus = "failed"
    /\ proc[p].rawId > 1
    /\ Len(rawSms) < MaxRaw

\* the date capture names a real calendar date, read day first or month first
RealDate(parts) ==
  \/ parts[2] \in 1..12 /\ parts[1] \in 1..DaysInMonth(parts[2], parts[3])
  \/ parts[1] \in 1..12 /\ parts[2] \in 1..DaysInMonth(parts[1], parts[3])

\* a dialect matches m but its date capture is no calendar date
MalformedCapture(m) == Msg(m).dialect # "none" /\ ~RealDate(Msg(m).date)

\* C18: a message whose dialect matches but whose capture is no valid value is
\* treated like a no-match: the parse yields no record, the raw row becomes failed
\* and no Transaction or Debt is persisted for it; every persisted amount is a
\* non-negative integer.
C18_MalformedCaptureRejected ==
  /\ \A p \in Procs :
       (proc[p].pc = "done" /\ proc[p].rawId # 0 /\ MalformedCapture(proc[p].msg))
         => /\ ~P(p).success
            /\ rawSms[proc[p].rawId].parseStatus = "failed"
            /\ TransactionsOfRaw(proc[p].rawId) = {}
            /\ debts = proc[p].pre.debts
  /\ \A i \in Ids(transactions) : transactions[i].amount \in Nat
  /\ \A i \in Ids(debts) : debts[i].totalOutstanding \in Nat

\* C19: at any time at most one processIncomingSms call is in progress across the
\* push listener, the poller and the historical import.
C19_AtMostOneActiveWriter == Cardinality({p \in Procs : ~Settled(p)}) <= 1

\* C20: once cancellation of an import is requested no further message is taken
\* from the batch, and the call in progress at that moment runs to its end.
C20_CancellableBetweenMessages ==
  [][importer.cancelRequested
       => /\ importer'.queue = importer.queue
          /\ ~Settled("import") => proc'["import"].pc # "idle"]_vars

\* how many times message m occurs in a sequence of messages
Occurrences(messages, m) == Cardinality({i \in 1..Len(messages) : messages[i] = m})

\* C21: for every order in which a batch is handed to the import, its messages
\* are passed to processIncomingSms in non-decreasing timestamp order, each once;
\* so when the call for a repayment begins, every draw of the batch with an
\* earlier timestamp has already been applied.
C21_ImportInTimestampOrder ==
  LET order == importer.taken \o importer.queue
  IN /\ \A m \in ImportMsgIds : Occurrences(order, m) = Occurrences(importer.input, m)
     /\ \A i, j \in 1..Len(order) : i < j => Msg(order[i]).ts <= Msg(order[j]).ts
     /\ \A j \in 1..Len(importer.taken) : \A m \in ImportMsgIds :
          ( /\ Msg(importer.taken[j]).dialect = "fuliza_repayment"
            /\ Msg(m).dialect = "fuliza"
            /\ Msg(m).ts < Msg(importer.taken[j]).ts
            /\ Occurrences(importer.input, m) > 0 )
          => \E i \in 1..(j - 1) : importer.taken[i] = m

\* a batch handed over with the repayment ahead of the draw: the repayment was
\* applied to the facility the draw had opened
C21_Witness ==
  /\ \E i, j \in 1..Len(importer.input) :
       /\ i < j
       /\ Msg(importer.input[i]).dialect = "fuliza_repayment"
       /\ Msg(importer.input[j]).dialect = "fuliza"
  /\ RepaymentApplied("import")

\* C22: written_off is terminal: no step changes the status of a Debt that is
\* written_off.
C22_WrittenOffIsTerminal ==
  [][\A i \in Ids(debts) :
       debts[i].status = "written_off" => debts'[i].status = "written_off"]_vars

\* the sweep would move debt row d to overdue when the clock reads t
DueAt(d, t) ==
  /\ d.status \in OpenStatuses
  /\ d.dueDate # NoDueDate
  /\ d.dueDate < t

\* C23: after an overdue sweep every Debt that was active or partially_paid with a
\* due date before the current time is overdue, and nothing else has changed: the
\* other debts keep their status and no total_outstanding is changed.
C23_SweepMarksExactlyTheOverdue ==
  ui.op = "checkOverdueDebts"
    => /\ Len(debts) = Len(ui.pre)
       /\ \A i \in Ids(ui.pre) :
            debts[i] = IF DueAt(ui.pre[i], now)
                       THEN [ui.pre[i] EXCEPT !.status = "overdue"]
                       ELSE ui.pre[i]

\* a sweep moved one facility to overdue and left alone a facility whose due date
\* had not passed
C23_Witness ==
  /\ ui.op = "checkOverdueDebts"
  /\ \E i, j \in Ids(debts) :
       /\ ui.pre[i].status \in OpenStatuses /\ debts[i].status = "overdue"
       /\ debts[j].status \in OpenStatuses /\ debts[j].dueDate = now

\* C24: a sweep that follows a sweep, no due date having passed in between,
\* leaves the debts as the first sweep left them.
C24_SweepIdempotent ==
  ( /\ ui.op = "checkOverdueDebts"
    /\ ui.repeat
    /\ \A i \in Ids(ui.pre) :
         isOverdue(ui.pre[i].dueDate, ui.preNow) = isOverdue(ui.pre[i].dueDate, now) )
    => debts = ui.pre

\* the second of two sweeps ran over a ledger in which the first had moved a
\* facility to overdue
C24_Witness ==
  /\ ui.op = "checkOverdueDebts"
  /\ ui.repeat
  /\ ui.preNow = now
  /\ \E i \in Ids(debts) : debts[i].status = "overdue"

\* call p has returned for a repayment that arrived while the facility was overdue
RepaymentOfOverdue(p) ==
  /\ Finished(p)
  /\ P(p).patternType = "fuliza_repayment"
  /\ ~proc[p].result.isDuplicate
  /\ \E i \in Ids(proc[p].pre.debts) :
       proc[p].pre.debts[i].type = "fuliza" /\ proc[p].pre.debts[i].status = "overdue"
  /\ OpenFacilities(proc[p].pre.debts) = {}

\* C30: a repayment that arrives after the sweep has moved the facility to overdue
\* is applied to it: a DebtPayment is appended and total_outstanding is reduced.
C30_RepaymentOfOverdueApplied ==
  \A p \in Procs :
    RepaymentOfOverdue(p)
      => /\ Len(debtPayments) = Len(proc[p].pre.debtPayments) + 1
         /\ \E i \in Ids(proc[p].pre.debts) :
              /\ proc[p].pre.debts[i].status = "overdue"
              /\ debtPayments[Len(debtPayments)].debtId = i
              /\ debts[i].totalOutstanding =
                   Max2(0, proc[p].pre.debts[i].totalOutstanding - P(p).data.amountRepaid)

\* the documented precedence: debt draw, debt auto-repayment, debt repayment,
\* savings transfer, income receipt, bank income, then the expense dialects, and
\* last the generic send, the bank confirmation and the card pattern
DocumentedRank(type) ==
  CASE type = "fuliza" -> 1
    [] type = "fuliza_auto_repayment" -> 2
    [] type = "fuliza_repayment" -> 3
    [] type = "mshwari_transfer" -> 4
    [] type = "mpesa_received" -> 5
    [] type = "bank_transfer" -> 6
    [] type \in {"mpesa_airtime", "mpesa_agent", "mpesa_till", "mpesa_paybill_alt",
                 "mpesa_paybill"} -> 7
    [] type = "mpesa_send" -> 8
    [] type = "bank_confirmation" -> 9
    [] type = "card_transaction" -> 10

\* the patterns that match the body of the call and whose record can be built
FullMatches == {t \in call.matches : ~ExtractThrows(t, call.dashedDate)}

\* C25: the dialect a body resolves to is a full match that no other full match
\* precedes in the documented order, and a body that matches both the debt-draw
\* pattern and the generic send pattern resolves to the debt draw.
C25_FirstMatchWins ==
  (call.fn = "parseMessage" /\ call.patternType # "")
    => /\ IF FullMatches = {}
          THEN call.patternType = "unknown"
          ELSE /\ call.patternType \in FullMatches
               /\ \A t \in FullMatches :
                    DocumentedRank(call.patternType) <= DocumentedRank(t)
       /\ {"fuliza", "mpesa_send"} \subseteq call.matches
            => call.patternType = "fuliza"

\* a body that matches the debt-draw, the paybill and the send pattern was resolved
C25_Witness ==
  /\ call.fn = "parseMessage"
  /\ call.patternType # ""
  /\ {"fuliza", "mpesa_paybill", "mpesa_send"} \subseteq call.matches

\* call p has returned for a record that is no debt event and whose reference
\* code had no Transaction when the call began
RegularRecord(p) ==
  /\ Finished(p)
  /\ P(p).patternType \notin DebtDialects
  /\ \A i \in Ids(proc[p].pre.transactions) :
       proc[p].pre.transactions[i].primaryRefCode # P(p).data.refCode

\* C26: for a parsed record that is no debt event and has no Transaction for its
\* reference code, the call creates exactly one Transaction, pending
\* classification and not auto-classified, marks the raw row parsed and returns
\* processed with needsClassification true and isPerson true exactly when the
\* record carries a counterparty phone number.
C26_RegularRecordCreatesPending ==
  \A p \in Procs :
    RegularRecord(p)
      => /\ Len(transactions) = Len(proc[p].pre.transactions) + 1
         /\ SubSeq(transactions, 1, Len(proc[p].pre.transactions))
              = proc[p].pre.transactions
         /\ transactions[Len(transactions)].primaryRefCode = P(p).data.refCode
         /\ transactions[Len(transactions)].rawSmsId = proc[p].rawId
         /\ transactions[Len(transactions)].status = "pending_classification"
         /\ ~transactions[Len(transactions)].isAutoClassified
         /\ rawSms[proc[p].rawId].parseStatus = "parsed"
         /\ proc[p].result.success
         /\ ~proc[p].result.isDuplicate
         /\ proc[p].result.transactionId = Len(transactions)
         /\ proc[p].result.needsClassification
         /\ proc[p].result.isPerson = (P(p).data.phone # "")

\* a send to a person with a phone number was recorded after other messages
C26_Witness ==
  \E p \in Procs :
    /\ RegularRecord(p)
    /\ P(p).data.phone # ""
    /\ proc[p].result.isPerson
    /\ proc[p].pre.transactions # << >>

\* the position of the decimal point of str, Len(str) + 1 without one
PointOf(str) ==
  IF \E i \in 1..Len(str) : str[i] = "."
  THEN CHOOSE i \in 1..Len(str) : str[i] = "." /\ \A j \in 1..(i - 1) : str[j] # "."
  ELSE Len(str) + 1

\* digits, with or without a separator before every group of three
GroupedDigits(int) ==
  /\ int # << >>
  /\ IsDigit(int[1])
  /\ \/ \A i \in 1..Len(int) : IsDigit(int[i])
     \/ \A i \in 1..Len(int) :
          IF (Len(int) - i) % 4 = 3 THEN int[i] = "," ELSE IsDigit(int[i])

\* an amount string: digits with optional thousands separators, a point and
\* exactly two decimal places
ValidAmount(str) ==
  /\ PointOf(str) = Len(str) - 2
  /\ IsDigit(str[Len(str) - 1]) /\ IsDigit(str[Len(str)])
  /\ GroupedDigits(SubSeq(str, 1, PointOf(str) - 1))

\* the integer number of cents a valid amount string denotes
CentsDenoted(str) ==
  100 * DigitsValue(SelectSeq(SubSeq(str, 1, PointOf(str) - 1), IsDigit))
    + 10 * DigitOf(str[Len(str) - 1]) + DigitOf(str[Len(str)])

\* C27: for every valid amount string, digits with optional thousands separators
\* and exactly two decimal places, parseAmountToCents returns exactly the integer
\* number of cents the string denotes.
C27_ParseAmountExact ==
  (call.fn = "parseAmountToCents" /\ call.returned /\ ValidAmount(call.amountStr))
    => /\ ~call.result.nan
       /\ call.result.cents = CentsDenoted(call.amountStr)

\* "3,530.05" was parsed
C27_Witness ==
  /\ call.fn = "parseAmountToCents"
  /\ call.returned
  /\ call.amountStr = <<"3", ",", "5", "3", "0", ".", "0", "5">>
  /\ call.result.cents = 353005

\* the letters of word stand in text, in either case
ContainsWord(text, word) ==
  \E from \in 1..(Len(text) - Len(word) + 1) :
     \A i \in 1..Len(word) :
        toUpperCase(<<text[from + i - 1]>>) = toUpperCase(<<word[i]>>)

\* C28: shouldProcess(sender, body) is true exactly when the sender classifier
\* returns a class other than unknown or the body contains a keyword of the
\* fixed set; the sender test of shouldProcess agrees with the classifier on
\* every sender.
C28_ShouldProcessAgreesWithClassifier ==
  (call.fn = "shouldProcess" /\ call.returned)
    => /\ call.result
            <=> \/ getSenderType(call.sender) # "unknown"
                \/ \E k \in 1..Len(keywords) : ContainsWord(call.body, keywords[k])
       /\ isFinancialSender(call.sender) <=> getSenderType(call.sender) # "unknown"

\* the dashed sender name with a body of no keyword was accepted
C28_Witness ==
  /\ call.fn = "shouldProcess"
  /\ call.returned
  /\ call.sender = <<"M", "-", "P", "E", "S", "A">>
  /\ call.body = <<"H", "e", "l", "l", "o">>
  /\ call.result

\* C29: no operation other than the bulk reset clearAllData deletes a raw row,
\* and a raw row keeps the message it was created with, its sender, body and
\* received timestamp: only its parse status, parse error and linked reference
\* code are ever changed.
C29_RawMessageFrame ==
  [][~(ui'.op = "clearAllData" /\ uiOps' = uiOps + 1)
       => /\ Len(rawSms') >= Len(rawSms)
          /\ \A i \in Ids(rawSms) : rawSms'[i].msg = rawSms[i].msg]_vars

\* raw rows went through parsing, linking and a reset that kept them
C29_Witness ==
  /\ ui.op = "clearTransactionsOnly"
  /\ Len(rawSms) >= 2
  /\ \E i \in Ids(rawSms) : rawSms[i].linkedRefCode # ""
  /\ \E i \in Ids(rawSms) : rawSms[i].parseError # ""

\* call p has processed a message of the primary channel
PrimaryProcessed(p) ==
  /\ Finished(p)
  /\ ~proc[p].faulted
  /\ proc[p].result.success
  /\ P(p).patternType \in PrimaryChannelTypes

\* C31: once a mobile-money message for a reference code has been processed, the
\* Transaction with that primary reference code carries the amount and the
\* transaction date of the mobile-money message, whether the confirmation for
\* the code was processed before or after it.
C31_PrimaryAmountAndDateKept ==
  \A p \in Procs :
    PrimaryProcessed(p)
      => \A i \in Ids(transactions) :
           transactions[i].primaryRefCode = P(p).data.refCode
             => /\ transactions[i].amount = P(p).data.amount
                /\ transactions[i].transactionDate = P(p).data.transactionDate

\* raw rows a and b hold two different messages that were both processed and
\* whose parsed reference codes are equal
SameCodeProcessed(a, b) ==
  /\ rawSms[a].msg # rawSms[b].msg
  /\ rawSms[a].parseStatus = "parsed"
  /\ rawSms[b].parseStatus = "parsed"
  /\ parseMessage(rawSms[a].msg, 0).data.refCode = parseMessage(rawSms[b].msg, 0).data.refCode

\* C32: after two different messages with equal parsed reference codes have been
\* processed one after the other, a link joins their two raw rows, also when the
\* body of one of them has another token of reference-code shape before the code.
C32_SameCodeLinked ==
  (\A p \in Procs : Settled(p))
    => \A a, b \in Ids(rawSms) :
         SameCodeProcessed(a, b)
           => \E i \in Ids(relatedMessages) : LinkedPair(relatedMessages[i]) = {a, b}

\* C33: when a batch run returns, its processed count is the number of
\* Transactions created during the run, and every message of the batch is counted
\* in exactly one of processed, duplicates and failed.  The run starts from the
\* empty store, so every Transaction was created during the run.
C33_CountsMatchTransactions ==
  importer.pc = "done"
    => /\ importer.results.processed = Len(transactions)
       /\ importer.results.processed + importer.results.duplicates
            + importer.results.failed = Len(importer.input)

\* C35: in every reachable state every Debt with status paid has a total
\* outstanding of 0, whatever draws, repayments, recorded payments, markAsPaid,
\* writeOff and overdue sweeps came before.
C35_PaidMeansNothingOutstanding ==
  \A i \in Ids(debts) : debts[i].status = "paid" => debts[i].totalOutstanding = 0

\* C36: a message delivered again, identical to one already processed, creates
\* no link: every link joins the raw rows of two distinct messages.
C36_LinksJoinDistinctMessages ==
  \A i \in Ids(relatedMessages) :
    rawSms[relatedMessages[i].primarySmsId].msg
      # rawSms[relatedMessages[i].secondarySmsId].msg

\* C39: for every interleaving of concurrent get and set calls on the key, once
\* all calls have returned the cached value equals the value stored in the
\* database, which is the value of the last set that completed: a later get
\* returns that value.
C39_CacheAgreesWithDatabase ==
  (\A k \in PollChecks : SettingsCallOver(settings, k))
    => /\ settings.cache.has => settings.cache.value = StoredValue(settings)
       /\ StoredValue(settings) = settings.lastSet

\* a get that found no row and a set that inserted it ran together and returned
C39_Witness ==
  /\ settings.calls["timer"].op = "get"
  /\ settings.calls["timer"].pc = "returned"
  /\ settings.calls["timer"].value = Null
  /\ settings.calls["foreground"].op = "set"
  /\ settings.calls["foreground"].pc = "returned"
  /\ ~settings.calls["foreground"].existing
  /\ settings.cache = [has |-> TRUE, value |-> MaxSetting]

\* C34: a check that has stored its timestamp has not stored one beyond the
\* timestamp of a message whose call, in that check, ended with a persistence
\* error
C34_WatermarkStaysAtFailedMessage ==
  \A c \in PollChecks :
    (polls[c].pc = "set" /\ settings.calls[c].pc = "returned")
      => \A m \in polls[c].failed : settings.calls[c].value <= Msg(m).ts

\* C37: the stored timestamp of the poller never decreases
C37_WatermarkNeverDecreases ==
  [][settings.db.exists => settings'.db.value >= settings.db.value]_vars

\* C38: the push listener holds at most one subscription to 'onSmsReceived'
C38_AtMostOneSubscription == Cardinality(listener.active) <= 1

====
